---- MODULE Spec2Model ----
(***************************************************************************)
(* Article de-duplication, grouping and merge engine of T4LResearch.       *)
(*                                                                         *)
(* Embeddings are sequences of integers.  A cosine similarity is kept as   *)
(* the exact pair [d, n] that stands for the real number d / sqrt(n), and  *)
(* a threshold as the fraction [num, den]; every comparison the code makes *)
(* on floats is made here on these exact values.                           *)
(***************************************************************************)
EXTENDS Integers, Sequences, FiniteSets, TLC

VARIABLES
    gNew,        \* group_similar_articles: argument new_articles
    gExisting,   \* group_similar_articles: argument existing_articles
    gThreshold,  \* group_similar_articles: argument threshold
    gGroups,     \* group_similar_articles: returned list of groups
    gDone,       \* TRUE once group_similar_articles has returned
    items,       \* table NewsResults: id -> row
    articles,    \* table NewsArticle: id -> row
    now,         \* datetime.now()
    returned,    \* ids returned by the last check_similarity_and_update
    events,      \* what the last check_similarity_and_update did, per item
    runs,        \* calls of run_similarity_check so far
    variant,     \* whose process_article_group runs: "sequential", "dataPrep"
    pc,          \* main: the statement reached
    gi,          \* main: index of the group being processed
    ai,          \* process_article_group: index of the article being checked
    merged,      \* items merged by check_similarity_and_update in this run
    failed,      \* items whose attempted merge failed and that are not merged
    marked,      \* items set to isProcessed by process_article_group
    built,       \* items whose group was turned into an article
    regenerated, \* merged items later passed through content generation
    reports,     \* what check_for_similar_articles found and returned
    procs,       \* concurrent check_similarity_and_update calls: their locals
    raised,      \* TRUE when the last check_similarity_and_update raised
    tTopics,     \* match_article_with_topics: argument topics
    tText,       \* match_article_with_topics: words of headline and content
    tAnswers,    \* what the LLM answers when asked about each topic
    tResult,     \* match_article_with_topics: position of the returned topic
    tCalled,     \* topics _confirm_match_with_llm was called for
    tDone,       \* TRUE once match_article_with_topics has returned
    finals,      \* main: calls of check_processed_articles_similarity
    handled,     \* main: the groups process_article_group was called for
    passed,      \* the ids mark_article_as_processed was called with
    groupUpdates, \* the updates of an existing article by a group
    spc,         \* run_status_management.main: the statement reached
    fSources,    \* fetch_from_all_sources: argument sources
    fpos,        \* fetch_from_all_sources: position of site in sources
    fpc,         \* the statement the fetcher has reached
    fCalls,      \* the calls of fetch_news made, with what they gave
    fAll,        \* fetch_from_all_sources: all_news_items
    fMaxRetries, \* fetch_news: max_retries
    fRetry,      \* fetch_news: retry_count
    fResult,     \* fetch_news: result
    fLog,        \* fetch_news: what each crawl attempt gave
    fReturned    \* fetch_news: the returned list

gvars == <<gNew, gExisting, gThreshold, gGroups, gDone>>
dbvars == <<items, articles, now>>
cvars == <<returned, events, runs, raised>>
pvars == <<variant, pc, gi, ai>>
tvars == <<tTopics, tText, tAnswers, tResult, tCalled, tDone>>
rvars == <<finals, handled, passed, groupUpdates, spc>>
fvars == <<fSources, fpos, fpc, fCalls, fAll,
           fMaxRetries, fRetry, fResult, fLog, fReturned>>
hvars == <<merged, failed, marked, built, regenerated, reports>>

vars == <<gNew, gExisting, gThreshold, gGroups, gDone,
          items, articles, now, returned, events, runs,
          variant, pc, gi, ai,
          merged, failed, marked, built, regenerated, reports, procs, raised,
          tTopics, tText, tAnswers, tResult, tCalled, tDone,
          finals, handled, passed, groupUpdates, spc,
          fSources, fpos, fpc, fCalls, fAll,
          fMaxRetries, fRetry, fResult, fLog, fReturned>>

----------------------------------------------------------------------------
(* Bounds *)

MaxNew == 3        \* longest new_articles list
MaxExisting == 2   \* longest existing_articles list
NItems == 3        \* rows of NewsResults
NArts == 2         \* rows of NewsArticle at the start
MaxRuns == 2       \* calls of check_similarity_and_update in a row
MaxTopics == 3     \* longest topics list
StartClock == 50   \* the hour at which the status job is first seen
MaxClock == 99     \* the last hour of the clock
MaxSources == 3    \* longest sources list
MaxCrawls == 6     \* crawl attempts one call of fetch_news is followed for

----------------------------------------------------------------------------
(* Exact arithmetic on similarities *)

Min(a, b) == IF a <= b THEN a ELSE b

RECURSIVE DotUpTo(_, _, _)
DotUpTo(v1, v2, k) ==
    IF k = 0 THEN 0 ELSE v1[k] * v2[k] + DotUpTo(v1, v2, k - 1)

\* sum(a * b for a, b in zip(vec1, vec2)): zip stops at the shorter vector
Dot(v1, v2) == DotUpTo(v1, v2, Min(Len(v1), Len(v2)))

NormSq(v) == DotUpTo(v, v, Len(v))

\* The similarity d / sqrt(n); 0.0 when one of the norms is 0.
cosine_similarity(vec1, vec2) ==
    IF NormSq(vec1) = 0 \/ NormSq(vec2) = 0
    THEN [d |-> 0, n |-> 1]
    ELSE [d |-> Dot(vec1, vec2), n |-> NormSq(vec1) * NormSq(vec2)]

\* a/b < c/d for a, c >= 0 and b, d > 0, by comparing the integer parts
\* and then the inverted remainders, so that no product overflows
RECURSIVE FracLT(_, _, _, _)
FracLT(a, b, c, d) ==
    IF a \div b # c \div d THEN a \div b < c \div d
    ELSE IF c % d = 0 THEN FALSE
    ELSE IF a % b = 0 THEN TRUE
    ELSE FracLT(d, c % d, b, a % b)

\* sim > threshold, for a threshold num/den >= 0
SimGT(sim, th) ==
    /\ sim.d > 0
    /\ FracLT(th.num * th.num, th.den * th.den, sim.d * sim.d, sim.n)

\* sim >= threshold, for a threshold num/den >= 0
SimGE(sim, th) ==
    /\ sim.d >= 0
    /\ ~FracLT(sim.d * sim.d, sim.n, th.num * th.num, th.den * th.den)

\* a < b as real numbers
SimLess(a, b) ==
    IF a.d >= 0 /\ b.d >= 0 THEN FracLT(a.d * a.d, a.n, b.d * b.d, b.n)
    ELSE IF a.d < 0 /\ b.d < 0 THEN FracLT(b.d * b.d, b.n, a.d * a.d, a.n)
    ELSE a.d < b.d

----------------------------------------------------------------------------
(* group_similar_articles (createArticles/dataPrep/article_grouping.py and *)
(* the identical copy in createArticles/runSequentialPipeline.py).         *)
(* An article is [id, emb, isNew]; isNew is FALSE for a NewsArticle row,   *)
(* the rows that carry a "Status" key.                                     *)

\* not vec1 or not vec2
NoVec(a, b) == a.emb = <<>> \/ b.emb = <<>>

\* Index of the existing article the anchor absorbs, 0 when there is none:
\* the first one, from position k on, that is unvisited and above threshold.
RECURSIVE FirstExisting(_, _, _, _, _)
FirstExisting(anchor, existing, k, visited, th) ==
    IF k > Len(existing) THEN 0
    ELSE IF existing[k].id \in visited THEN
        FirstExisting(anchor, existing, k + 1, visited, th)
    ELSE IF NoVec(anchor, existing[k]) THEN
        FirstExisting(anchor, existing, k + 1, visited, th)
    ELSE IF SimGT(cosine_similarity(anchor.emb, existing[k].emb), th) THEN k
    ELSE FirstExisting(anchor, existing, k + 1, visited, th)

\* AbsorbExisting without the break: every existing article above threshold
RECURSIVE AbsorbEveryExisting(_, _, _, _)
AbsorbEveryExisting(anchor, existing, st, th) ==
    LET k == FirstExisting(anchor, existing, 1, st.visited, th)
    IN  IF k = 0 THEN st
        ELSE AbsorbEveryExisting(anchor, existing,
                 [group |-> Append(st.group, existing[k]),
                  visited |-> st.visited \cup {existing[k].id}], th)

\* The loop over existing_articles: at most one is appended (the break).
AbsorbExisting(anchor, existing, st, th) ==
    LET k == FirstExisting(anchor, existing, 1, st.visited, th)
    IN  IF k = 0 THEN st
        ELSE [group |-> Append(st.group, existing[k]),
              visited |-> st.visited \cup {existing[k].id}]

\* AbsorbNew with sim >= threshold in place of sim > threshold
RECURSIVE AbsorbNewAtLeast(_, _, _, _, _)
AbsorbNewAtLeast(anchor, new, k, st, th) ==
    IF k > Len(new) THEN st
    ELSE IF new[k].id \in st.visited THEN
        AbsorbNewAtLeast(anchor, new, k + 1, st, th)
    ELSE IF NoVec(anchor, new[k]) THEN
        AbsorbNewAtLeast(anchor, new, k + 1, st, th)
    ELSE IF SimGE(cosine_similarity(anchor.emb, new[k].emb), th) THEN
        AbsorbNewAtLeast(anchor, new, k + 1,
                  [group |-> Append(st.group, new[k]),
                   visited |-> st.visited \cup {new[k].id}], th)
    ELSE AbsorbNewAtLeast(anchor, new, k + 1, st, th)

\* The loop over the other new articles, from position k on.
RECURSIVE AbsorbNew(_, _, _, _, _)
AbsorbNew(anchor, new, k, st, th) ==
    IF k > Len(new) THEN st
    ELSE IF new[k].id \in st.visited THEN AbsorbNew(anchor, new, k + 1, st, th)
    ELSE IF NoVec(anchor, new[k]) THEN AbsorbNew(anchor, new, k + 1, st, th)
    ELSE IF SimGT(cosine_similarity(anchor.emb, new[k].emb), th) THEN
        AbsorbNew(anchor, new, k + 1,
                  [group |-> Append(st.group, new[k]),
                   visited |-> st.visited \cup {new[k].id}], th)
    ELSE AbsorbNew(anchor, new, k + 1, st, th)

\* The main loop over new_articles, from position i on.
RECURSIVE GroupLoop(_, _, _, _, _)
GroupLoop(new, existing, i, acc, th) ==
    IF i > Len(new) THEN acc
    ELSE IF new[i].id \in acc.visited THEN
        GroupLoop(new, existing, i + 1, acc, th)
    ELSE
        LET st0 == [group |-> <<new[i]>>,
                    visited |-> acc.visited \cup {new[i].id}]
            st1 == AbsorbExisting(new[i], existing, st0, th)
            st2 == AbsorbNew(new[i], new, 1, st1, th)
        IN  GroupLoop(new, existing, i + 1,
                      [groups |-> Append(acc.groups, st2.group),
                       visited |-> st2.visited], th)

\* The trailing loop over the new articles that are still unvisited.
RECURSIVE RemainingLoop(_, _, _)
RemainingLoop(new, i, acc) ==
    IF i > Len(new) THEN acc
    ELSE IF new[i].id \notin acc.visited THEN
        RemainingLoop(new, i + 1,
                      [groups |-> Append(acc.groups, <<new[i]>>),
                       visited |-> acc.visited \cup {new[i].id}])
    ELSE RemainingLoop(new, i + 1, acc)

group_similar_articles(new_articles, existing_articles, threshold) ==
    RemainingLoop(new_articles, 1,
        GroupLoop(new_articles, existing_articles, 1,
                  [groups |-> <<>>, visited |-> {}], threshold)).groups

----------------------------------------------------------------------------
(* Inputs of the grouping specification *)

\* Embeddings with exactly known cosines:
\*   E1.E85 = 0.85   E1.E89 = 0.89   E1.E75 = 0.75
\*   E85.E89 = 0.9935   E89.E75 = 0.9175   E85.E75 = 0.9375
E1 == <<1, 0, 0, 0, 0>>
E85 == <<17, 10, 3, 1, 1>>
E89 == <<89, 45, 7, 2, 1>>
E75 == <<3, 2, 1, 1, 1>>
\* An embedding of another dimension
EShort == <<1, 0>>

\* threshold=0.85 (grouping), 0.89 (duplicate check), 0.75 (extended check)
T85 == [num |-> 17, den |-> 20]
T89 == [num |-> 89, den |-> 100]
T75 == [num |-> 3, den |-> 4]

AllEmbs == {<<>>, E1, E85, E89, E75, EShort}
AllThresholds == {T85, T89, T75}

GEmbs == {<<>>, E1, E85, E89}
GThresholds == {T85, T89}

\* Injective sequences of length n over S
InjSeqs(S, n) ==
    {s \in [1..n -> S] : \A i, j \in 1..n : i # j => s[i] # s[j]}

\* new_articles: ids unique within the list (named 1..n in list order)
NewLists ==
    UNION {{[i \in 1..n |-> [id |-> i, emb |-> e[i], isNew |-> TRUE]] :
               e \in [1..n -> GEmbs]} : n \in 0..MaxNew}

\* existing_articles: ids unique within the list, possibly equal to new ids
ExistingLists ==
    UNION {{[i \in 1..n |-> [id |-> ids[i], emb |-> e[i], isNew |-> FALSE]] :
               ids \in InjSeqs(1..(MaxNew + 1), n), e \in [1..n -> GEmbs]} :
           n \in 0..MaxExisting}

\* The variables of the database and of the duplicate check, at rest
DbIdle ==
    /\ items = <<>>
    /\ articles = <<>>
    /\ now = 0
    /\ returned = <<>>
    /\ events = {}
    /\ runs = 0
    /\ raised = FALSE

\* The variables of the topic matcher, at rest
TopicIdle ==
    /\ tTopics = <<>>
    /\ tText = {}
    /\ tAnswers = <<>>
    /\ tResult = 0
    /\ tCalled = {}
    /\ tDone = FALSE

\* The ghosts of a run of main and the status job, at rest
RunIdle ==
    /\ finals = 0
    /\ handled = {}
    /\ passed = {}
    /\ groupUpdates = {}
    /\ spc = "idle"

\* The variables of the fetcher, at rest
FetchIdle ==
    /\ fSources = <<>>
    /\ fpos = 0
    /\ fpc = "idle"
    /\ fCalls = <<>>
    /\ fAll = <<>>
    /\ fMaxRetries = 0
    /\ fRetry = 0
    /\ fResult = "none"
    /\ fLog = <<>>
    /\ fReturned = <<>>

\* The variables of the pipeline, at rest
PipelineIdle ==
    /\ variant = "sequential"
    /\ pc = "idle"
    /\ gi = 0
    /\ ai = 0
    /\ merged = {}
    /\ failed = {}
    /\ marked = {}
    /\ built = {}
    /\ regenerated = {}
    /\ reports = {}
    /\ procs = <<>>

GInit ==
    /\ gNew \in NewLists
    /\ gExisting \in ExistingLists
    /\ gThreshold \in GThresholds
    /\ gGroups = <<>>
    /\ gDone = FALSE
    /\ DbIdle
    /\ PipelineIdle
    /\ TopicIdle
    /\ RunIdle
    /\ FetchIdle

\* One call of group_similar_articles
Group ==
    /\ ~gDone
    /\ gGroups' = group_similar_articles(gNew, gExisting, gThreshold)
    /\ gDone' = TRUE
    /\ UNCHANGED <<gNew, gExisting, gThreshold>>
    /\ UNCHANGED <<dbvars, cvars, pvars, hvars, procs, tvars, rvars, fvars>>

GNext == Group

SpecGroup == GInit /\ [][GNext]_vars

----------------------------------------------------------------------------
(* The tables.                                                             *)
(* A NewsResults row is [id, url, uniqueName, emb, isProcessed]; url and   *)
(* uniqueName are numbers, 0 standing for the empty string.                *)
(* A NewsArticle row is [present, NewsResult, sourceURL, Status, emb, rev, *)
(* created_at]: NewsResult is the back-reference, a str(id) or a           *)
(* uniqueName; sourceURL is the stored string, kept as the sequence of the *)
(* URLs written into it; rev counts the writes of EnglishArticle and       *)
(* GermanArticle.  A row with present = FALSE is not in the table.         *)

ItemIds == 1..NItems
ArtIds == 1..(NArts + NItems)   \* the last NItems ids are for new rows

IdRef(id) == [k |-> "id", v |-> id]          \* str(most_similar_id)
NameRef(name) == [k |-> "name", v |-> name]  \* a uniqueName
NoRef == [k |-> "none", v |-> 0]

NoArticle ==
    [present |-> FALSE, NewsResult |-> NoRef, sourceURL |-> <<>>,
     Status |-> "none", emb |-> <<>>, rev |-> 0, created_at |-> 0]

\* select("*").eq("isProcessed", flag): the rows in id order, up to id k
RECURSIVE RowsUpTo(_, _, _)
RowsUpTo(its, flag, k) ==
    IF k = 0 THEN <<>>
    ELSE IF its[k].isProcessed = flag
         THEN Append(RowsUpTo(its, flag, k - 1), its[k])
         ELSE RowsUpTo(its, flag, k - 1)

Rows(its, flag) == RowsUpTo(its, flag, Len(its))

----------------------------------------------------------------------------
(* check_similarity_and_update (createArticles/review/similarity.py)       *)

\* cosine_similarity of review/similarity.py: np.dot raises on vectors of
\* different lengths
np_cosine_similarity(embedding1, embedding2) ==
    IF Len(embedding1) # Len(embedding2)
    THEN [raised |-> TRUE, d |-> 0, n |-> 1]
    ELSE [raised |-> FALSE,
          d |-> cosine_similarity(embedding1, embedding2).d,
          n |-> cosine_similarity(embedding1, embedding2).n]

\* np_cosine_similarity and the comparison similarity >= threshold on the
\* embeddings and thresholds of the model, each evaluated once
Similarity ==
    [a \in AllEmbs, b \in AllEmbs |-> np_cosine_similarity(a, b)]

AtLeast ==
    [a \in AllEmbs, b \in AllEmbs, t \in AllThresholds |->
        SimGE(Similarity[a, b], t)]

\* Skip if comparing with self (based on URL or uniqueName)
IsSelf(processed, unprocessed) ==
    \/ processed.url # 0 /\ processed.url = unprocessed.url
    \/ processed.uniqueName # 0 /\ processed.uniqueName = unprocessed.uniqueName

\* SimilarFrom giving up the scan at the first processed item of another
\* dimension
RECURSIVE SimilarUntilMismatch(_, _, _, _)
SimilarUntilMismatch(unprocessed, processed, k, th) ==
    IF k > Len(processed) THEN <<>>
    ELSE
        LET p == processed[k]
            rest == SimilarUntilMismatch(unprocessed, processed, k + 1, th)
            sim == Similarity[unprocessed.emb, p.emb]
        IN  IF IsSelf(p, unprocessed) THEN rest
            ELSE IF p.emb = <<>> THEN rest
            ELSE IF Len(unprocessed.emb) # Len(p.emb) THEN <<>>
            ELSE IF sim.raised THEN rest
            ELSE IF AtLeast[unprocessed.emb, p.emb, th]
                 THEN <<[article |-> p, similarity |-> sim]>> \o rest
                 ELSE rest

\* The scan over processed_articles from position k on: similar_processed
RECURSIVE SimilarFrom(_, _, _, _)
SimilarFrom(unprocessed, processed, k, th) ==
    IF k > Len(processed) THEN <<>>
    ELSE
        LET p == processed[k]
            rest == SimilarFrom(unprocessed, processed, k + 1, th)
            sim == Similarity[unprocessed.emb, p.emb]
        IN  IF IsSelf(p, unprocessed) THEN rest
            ELSE IF p.emb = <<>> THEN rest
            ELSE IF Len(unprocessed.emb) # Len(p.emb) THEN rest
            ELSE IF sim.raised THEN rest
            ELSE IF AtLeast[unprocessed.emb, p.emb, th]
                 THEN <<[article |-> p, similarity |-> sim]>> \o rest
                 ELSE rest

\* InsertDesc placing an element before the elements of equal similarity
RECURSIVE InsertDescUnstable(_, _)
InsertDescUnstable(s, x) ==
    IF s = <<>> THEN <<x>>
    ELSE IF ~SimLess(x.similarity, Head(s).similarity) THEN <<x>> \o s
    ELSE <<Head(s)>> \o InsertDescUnstable(Tail(s), x)

\* list.sort(key=similarity, reverse=True) is stable: an element goes after
\* every element whose similarity is not smaller than its own
RECURSIVE InsertDesc(_, _)
InsertDesc(s, x) ==
    IF s = <<>> THEN <<x>>
    ELSE IF SimLess(Head(s).similarity, x.similarity) THEN <<x>> \o s
    ELSE <<Head(s)>> \o InsertDesc(Tail(s), x)

RECURSIVE SortUpTo(_, _)
SortUpTo(s, k) ==
    IF k = 0 THEN <<>> ELSE InsertDesc(SortUpTo(s, k - 1), s[k])

SortDesc(s) == SortUpTo(s, Len(s))

\* select("*").eq("NewsResult", ref): the first row found, 0 when none
RECURSIVE ByRefFrom(_, _, _)
ByRefFrom(arts, ref, a) ==
    IF a > Len(arts) THEN 0
    ELSE IF arts[a].present /\ arts[a].NewsResult = ref THEN a
    ELSE ByRefFrom(arts, ref, a + 1)

\* most_similar_url in source_url
UrlIn(url, sourceURL) == \E k \in 1..Len(sourceURL) : sourceURL[k] = url

\* The linear scan over all articles for the URL: the first hit, 0 when none
RECURSIVE ByUrlFrom(_, _, _)
ByUrlFrom(arts, url, a) ==
    IF a > Len(arts) THEN 0
    ELSE IF arts[a].present /\ url # 0 /\ UrlIn(url, arts[a].sourceURL) THEN a
    ELSE ByUrlFrom(arts, url, a + 1)

\* The article the merge updates: by str(id), then by uniqueName, then by
\* URL; 0 when no article is found
LookupArticle(arts, most_similar) ==
    IF ByRefFrom(arts, IdRef(most_similar.id), 1) # 0
    THEN ByRefFrom(arts, IdRef(most_similar.id), 1)
    ELSE IF ByRefFrom(arts, NameRef(most_similar.uniqueName), 1) # 0
    THEN ByRefFrom(arts, NameRef(most_similar.uniqueName), 1)
    ELSE ByUrlFrom(arts, most_similar.url, 1)

\* A url as a string: the empty string for no url
UrlStr(url) == IF url = 0 THEN <<>> ELSE <<url>>

InList(x, list) == \E k \in 1..Len(list) : list[k] = x

\* for similar in similar_processed: append the url if not in the list
RECURSIVE AddSimilarUrls(_, _, _)
AddSimilarUrls(list, similar, k) ==
    IF k > Len(similar) THEN list
    ELSE IF similar[k].article.url # 0
            /\ ~InList(UrlStr(similar[k].article.url), list)
         THEN AddSimilarUrls(Append(list, UrlStr(similar[k].article.url)),
                             similar, k + 1)
         ELSE AddSimilarUrls(list, similar, k + 1)

\* list(filter(None, dict.fromkeys(list))): first occurrences, no empty one
RECURSIVE DedupUpTo(_, _)
DedupUpTo(list, k) ==
    IF k = 0 THEN <<>>
    ELSE IF list[k] = <<>> \/ InList(list[k], SubSeq(list, 1, k - 1))
         THEN DedupUpTo(list, k - 1)
         ELSE Append(DedupUpTo(list, k - 1), list[k])

\* ", ".join(list)
RECURSIVE Join(_)
Join(list) == IF list = <<>> THEN <<>> ELSE Head(list) \o Join(Tail(list))

\* CombinedSourceURL keeping the URL of the unprocessed item alone
CombinedNewUrlOnly(existing_article, similar, unprocessed) ==
    UrlStr(unprocessed.url)

\* all_source_urls, joined: the new value of sourceURL
CombinedSourceURL(existing_article, similar, unprocessed) ==
    LET existing_source_urls ==
            AddSimilarUrls(<<existing_article.sourceURL>>, similar, 1)
        all_source_urls ==
            Append(existing_source_urls, UrlStr(unprocessed.url))
    IN  Join(DedupUpTo(all_source_urls, Len(all_source_urls)))

\* What the collaborators do while one unprocessed item is handled:
\*   lookup_raise  a query of the article lookup raises
\*   gen_raise     generate_text_with_model raises
\*   update_false  update_article returns False
\*   mark_raise    the write of isProcessed raises
Outcomes == {"ok", "lookup_raise", "gen_raise", "update_false", "mark_raise"}

\* A state [items, articles, ids] left as it is, with the branch taken
Skip(st, tag) ==
    [items |-> st.items, articles |-> st.articles, ids |-> st.ids, tag |-> tag]

\* CommitMerge marking and reporting the item although update_article
\* returned False
CommitMergeUnchecked(st, unprocessed, article_id, updates, oc) ==
    IF oc = "mark_raise"
    THEN [items |-> st.items,
          articles |-> [st.articles EXCEPT ![article_id] = updates],
          ids |-> st.ids, tag |-> "mark_raise"]
    ELSE [items |-> [st.items EXCEPT ![unprocessed.id].isProcessed = TRUE],
          articles |-> IF oc = "update_false" THEN st.articles
                       ELSE [st.articles EXCEPT ![article_id] = updates],
          ids |-> Append(st.ids, unprocessed.id),
          tag |-> IF oc = "update_false" THEN "update_false" ELSE "merged"]

\* if await update_article(...): mark the item processed and report its id
CommitMerge(st, unprocessed, article_id, updates, oc) ==
    IF oc = "update_false" THEN Skip(st, "update_false")
    ELSE IF oc = "mark_raise"
         THEN [items |-> st.items,
               articles |-> [st.articles EXCEPT ![article_id] = updates],
               ids |-> st.ids, tag |-> "mark_raise"]
    ELSE [items |-> [st.items EXCEPT ![unprocessed.id].isProcessed = TRUE],
          articles |-> [st.articles EXCEPT ![article_id] = updates],
          ids |-> Append(st.ids, unprocessed.id),
          tag |-> "merged"]

\* RegenerateAndCommit with the item marked and reported in the except branch
RegenerateAndMarkAnyway(st, unprocessed, article_id, similar_processed, oc, clock) ==
    IF oc = "gen_raise"
    THEN [items |-> [st.items EXCEPT ![unprocessed.id].isProcessed = TRUE],
          articles |-> st.articles,
          ids |-> Append(st.ids, unprocessed.id),
          tag |-> "gen_raise"]
    ELSE CommitMerge(st, unprocessed, article_id,
             [st.articles[article_id] EXCEPT
                 !.rev = @ + 1,
                 !.Status = "UPDATED",
                 !.sourceURL = CombinedSourceURL(st.articles[article_id],
                                                 similar_processed, unprocessed),
                 !.created_at = clock],
             oc)

\* Combine the source URLs, generate the English and the German text (the
\* try block: a raise ends the item), build updates and commit
RegenerateAndCommit(st, unprocessed, article_id, similar_processed, oc, clock) ==
    IF oc = "gen_raise" THEN Skip(st, "gen_raise")
    ELSE CommitMerge(st, unprocessed, article_id,
             [st.articles[article_id] EXCEPT
                 !.rev = @ + 1,
                 !.Status = "UPDATED",
                 !.sourceURL = CombinedSourceURL(st.articles[article_id],
                                                 similar_processed, unprocessed),
                 !.created_at = clock],
             oc)

\* IsArchivedOrDeleted testing for ARCHIVED alone
IsArchivedOnly(article_status) == article_status = "ARCHIVED"

\* article_status == "ARCHIVED" or article_status == "DELETED"
IsArchivedOrDeleted(article_status) ==
    article_status = "ARCHIVED" \/ article_status = "DELETED"

\* The outer try block: check the matched NewsResults row, look the article
\* up, refuse an archived or deleted one, then regenerate and commit
ResolveAndMerge(st, unprocessed, similar_processed, oc, clock) ==
    LET most_similar == similar_processed[1].article
        article_id == LookupArticle(st.articles, most_similar)
    IN  IF oc = "lookup_raise" THEN Skip(st, "lookup_raise")
        ELSE IF ~st.items[most_similar.id].isProcessed
             THEN Skip(st, "not_processed")
        ELSE IF article_id = 0 THEN Skip(st, "lookup_miss")
        ELSE IF IsArchivedOrDeleted(st.articles[article_id].Status)
             THEN Skip(st, "archived")
        ELSE RegenerateAndCommit(st, unprocessed, article_id,
                                 similar_processed, oc, clock)

\* The body of the loop for one unprocessed item, on the state
\* [items, articles, ids]; tag names the branch that ended it.
HandleItem(st, unprocessed, processed, th, oc, clock) ==
    LET similar_processed == SortDesc(SimilarFrom(unprocessed, processed, 1, th))
    IN  IF unprocessed.emb = <<>> THEN Skip(st, "no_embedding")
        ELSE IF similar_processed = <<>> THEN Skip(st, "no_match")
        ELSE ResolveAndMerge(st, unprocessed, similar_processed, oc, clock)

\* The record kept of one handled item: the branch taken, the processed
\* item chosen, the article resolved and its row before and after.
EventOf(st, unprocessed, processed, th, oc, after) ==
    LET similar_processed == SortDesc(SimilarFrom(unprocessed, processed, 1, th))
        attempted == unprocessed.emb # <<>> /\ similar_processed # <<>>
        best == IF attempted THEN similar_processed[1].article.id ELSE 0
        art == IF attempted /\ oc # "lookup_raise"
               THEN LookupArticle(st.articles, similar_processed[1].article)
               ELSE 0
    IN  [item |-> unprocessed.id,
         th |-> th,
         tag |-> after.tag,
         best |-> best,
         art |-> art,
         rowBefore |-> IF art = 0 THEN NoArticle ELSE st.articles[art],
         rowAfter |-> IF art = 0 THEN NoArticle ELSE after.articles[art],
         unchanged |-> after.articles = st.articles,
         processedAfter |-> after.items[unprocessed.id].isProcessed,
         reported |-> InList(unprocessed.id, after.ids)]

\* for unprocessed in unprocessed_articles, from position k on
RECURSIVE CheckLoop(_, _, _, _, _, _, _)
CheckLoop(st, unprocessed_articles, processed_articles, k, th, oracle, clock) ==
    IF k > Len(unprocessed_articles) THEN st
    ELSE
        LET u == unprocessed_articles[k]
            oc == IF u.id \in DOMAIN oracle THEN oracle[u.id] ELSE "ok"
            after == HandleItem(st, u, processed_articles, th, oc, clock)
        IN  CheckLoop([items |-> after.items, articles |-> after.articles,
                       ids |-> after.ids,
                       events |-> st.events \cup
                           {EventOf(st, u, processed_articles, th, oc, after)}],
                      unprocessed_articles, processed_articles, k + 1,
                      th, oracle, clock)

\* check_similarity_and_update(threshold) on the tables its, arts: the tables
\* afterwards, the returned ids and the events
check_similarity_and_update(its, arts, th, oracle, clock) ==
    LET st0 == [items |-> its, articles |-> arts, ids |-> <<>>, events |-> {}]
    IN  IF Rows(its, FALSE) = <<>> THEN st0
        ELSE IF Rows(its, TRUE) = <<>> THEN st0
        ELSE CheckLoop(st0, Rows(its, FALSE), Rows(its, TRUE), 1,
                       th, oracle, clock)

\* The unprocessed items for which a merge is attempted
Attempting(its, th) ==
    {i \in 1..Len(its) :
        /\ ~its[i].isProcessed
        /\ its[i].emb # <<>>
        /\ SimilarFrom(its[i], Rows(its, TRUE), 1, th) # <<>>}

\* The collaborators' behaviour for every attempted merge of one call
Oracles(its, th) == [Attempting(its, th) -> Outcomes]

----------------------------------------------------------------------------
(* The duplicate check run on its own (createArticles/run_similarity_check *)
(* .py) and as the extended check: calls of check_similarity_and_update on *)
(* a database drawn at the start.                                          *)

MEmbs == {<<>>, E1, E89}
CheckThresholds == {T89, T75}

\* NewsResults: items 1..k are processed; the last item may carry the url
\* or the uniqueName of the first (a re-ingested source)
ItemTablesOver(embs, shares) ==
    {[i \in ItemIds |->
        [id |-> i,
         url |-> IF share = "url" /\ i = NItems THEN 1 ELSE i,
         uniqueName |-> IF share = "name" /\ i = NItems THEN 1 ELSE i,
         emb |-> e[i],
         isProcessed |-> i <= k]] :
      e \in [ItemIds -> embs], k \in 0..NItems, share \in shares}

ItemTables == ItemTablesOver(MEmbs, {"none", "url", "name"})

\* The NewsArticle row written for item a, found by str(id), by uniqueName
\* or only by its URL
ArticleFor(its, a, status, refKind) ==
    [present |-> TRUE,
     NewsResult |-> IF refKind = "id" THEN IdRef(its[a].id)
                    ELSE IF refKind = "name" THEN NameRef(its[a].uniqueName)
                    ELSE NoRef,
     sourceURL |-> UrlStr(its[a].url),
     Status |-> status, emb |-> <<>>, rev |-> 0, created_at |-> 0]

\* NewsArticle: article a, when present, was written for item a
ArticleTables(its, statuses) ==
    {[a \in ArtIds |->
        IF a <= NArts /\ a <= NItems /\ st[a] # "none"
        THEN ArticleFor(its, a, st[a], refKind)
        ELSE NoArticle] :
      st \in {f \in [1..NArts -> statuses \cup {"none"}] :
                 \A a \in 2..NArts : f[a] \in {"NEW", "none"}},
      refKind \in {"id", "name", "url"}}

MInit ==
    /\ items \in ItemTables
    /\ articles \in ArticleTables(items, {"NEW", "ARCHIVED", "DELETED"})
    /\ now = 1
    /\ returned = <<>>
    /\ events = {}
    /\ runs = 0
    /\ raised = FALSE
    /\ gNew = <<>>
    /\ gExisting = <<>>
    /\ gThreshold = T85
    /\ gGroups = <<>>
    /\ gDone = FALSE
    /\ PipelineIdle
    /\ TopicIdle
    /\ RunIdle
    /\ FetchIdle

\* One call of check_similarity_and_update(threshold)
SimilarityCheck ==
    /\ runs < MaxRuns
    /\ \E th \in CheckThresholds : \E oracle \in Oracles(items, th) :
         \E r \in {check_similarity_and_update(items, articles, th, oracle, now)} :
             /\ items' = r.items
             /\ articles' = r.articles
             /\ returned' = r.ids
             /\ events' = r.events
    /\ runs' = runs + 1
    /\ UNCHANGED <<now, raised, gvars, pvars, hvars, procs, tvars, rvars, fvars>>

MNext == SimilarityCheck

SpecMerge == MInit /\ [][MNext]_vars

----------------------------------------------------------------------------
(* process_article_group and what it calls, in the two versions the        *)
(* repository holds: createArticles/runSequentialPipeline.py               *)
(* ("sequential") and createArticles/dataPrep with                         *)
(* createArticles/contentGeneration ("dataPrep").  An article of a group   *)
(* is [id, emb, isNew]; isNew stands for the absence of the key "Status".  *)

\* cosine_similarity(vec1, vec2) >= threshold for the embeddings and
\* thresholds of the model, each evaluated once
CosineAtLeast ==
    [a \in AllEmbs, b \in AllEmbs, t \in AllThresholds |->
        SimGE(cosine_similarity(a, b), t)]

\* check_for_similar_articles: the ids of similar_processed, from row k on
RECURSIVE SimilarIdsFrom(_, _, _, _)
SimilarIdsFrom(unprocessed_article, processed_articles, k, th) ==
    IF k > Len(processed_articles) THEN {}
    ELSE
        LET processed == processed_articles[k]
            rest == SimilarIdsFrom(unprocessed_article, processed_articles,
                                   k + 1, th)
        IN  IF processed.emb = <<>> THEN rest
            ELSE IF Len(unprocessed_article.emb) # Len(processed.emb) THEN rest
            ELSE IF CosineAtLeast[unprocessed_article.emb, processed.emb, th]
                 THEN {processed.id} \cup rest
                 ELSE rest

\* The processed items check_for_similar_articles finds similar
SimilarIds(unprocessed_article, its) ==
    IF Rows(its, TRUE) = <<>> THEN {}
    ELSE IF unprocessed_article.emb = <<>> THEN {}
    ELSE SimilarIdsFrom(unprocessed_article, Rows(its, TRUE), 1, T89)

\* check_for_similar_articles(unprocessed_article): with a similar processed
\* item, check_similarity_and_update(0.89) runs over the whole table; the
\* sequential version then returns True, the dataPrep version returns
\* whether the article's id is in the returned list
check_for_similar_articles(v, unprocessed_article, its, arts, oracle, clock) ==
    LET found == SimilarIds(unprocessed_article, its)
        r == check_similarity_and_update(its, arts, T89, oracle, clock)
    IN  IF found = {}
        THEN [items |-> its, articles |-> arts, ids |-> <<>>, events |-> {},
              found |-> {}, called |-> FALSE, result |-> FALSE]
        ELSE [items |-> r.items, articles |-> r.articles, ids |-> r.ids,
              events |-> r.events, found |-> found, called |-> TRUE,
              result |-> IF v = "sequential" THEN TRUE
                         ELSE InList(unprocessed_article.id, r.ids)]

\* mark_article_as_processed(id) for every id of ids: the update of
\* NewsResults where id equals the given id
MarkProcessed(its, ids) ==
    [i \in DOMAIN its |->
        IF i \in ids THEN [its[i] EXCEPT !.isProcessed = TRUE] ELSE its[i]]

\* delete_article_and_update_news_result: NewsResults rows of that
\* uniqueName go back to isProcessed = False
ResetByName(its, ref) ==
    [i \in DOMAIN its |->
        IF ref.k = "name" /\ its[i].uniqueName = ref.v
        THEN [its[i] EXCEPT !.isProcessed = FALSE] ELSE its[i]]

GroupIds(article_group) ==
    {article_group[k].id : k \in 1..Len(article_group)}

NewIds(article_group) ==
    {article_group[k].id : k \in {j \in 1..Len(article_group) : article_group[j].isNew}}

\* existing_article: the id of the first article of the group with a
\* "Status", 0 when there is none
RECURSIVE ExistingArticleFrom(_, _)
ExistingArticleFrom(article_group, k) ==
    IF k > Len(article_group) THEN 0
    ELSE IF ~article_group[k].isNew THEN article_group[k].id
    ELSE ExistingArticleFrom(article_group, k + 1)

\* What the collaborators of the content processing do for one group:
\*   no_content   nothing was extracted for the group
\*   raise        extraction or generation raises
\*   store_fail   the write of NewsArticle fails
\*   review_fail  review_article_fields rejects the article
ContentOutcomes == {"ok", "no_content", "raise", "store_fail", "review_fail"}

\* The record of create_news_article_record for the representative article
NewArticleRecord(representative_article, clock) ==
    [present |-> TRUE,
     NewsResult |-> NameRef(representative_article.uniqueName),
     sourceURL |-> UrlStr(representative_article.url),
     Status |-> "NEW", emb |-> <<>>, rev |-> 1, created_at |-> clock]

\* record_to_update: EnglishArticle, GermanArticle, Status and created_at;
\* an update of a row that is not in the table changes nothing
UpdateRecord(arts, existing_article_id, clock) ==
    IF arts[existing_article_id].present
    THEN [arts EXCEPT ![existing_article_id] =
             [@ EXCEPT !.rev = @ + 1, !.Status = "UPDATED", !.created_at = clock]]
    ELSE arts

\* The result of the content processing: the tables, whether text was
\* generated and whether an article was created or updated from the group
ContentResult(its, arts, generated, wrote) ==
    [items |-> its, articles |-> arts, generated |-> generated, wrote |-> wrote]

\* Handle completely new article group: create the record for the first
\* article of the group, review it and mark every article of the group
CreatePath(article_group, its, arts, oc, clock) ==
    LET representative_article == its[article_group[1].id]
        new_record_id == NArts + representative_article.id
    IN  IF oc = "store_fail" THEN ContentResult(its, arts, TRUE, FALSE)
        ELSE IF oc = "review_fail"
             THEN ContentResult(
                      ResetByName(its, NameRef(representative_article.uniqueName)),
                      arts, TRUE, FALSE)
        ELSE ContentResult(
                 MarkProcessed(its, GroupIds(article_group)),
                 [arts EXCEPT ![new_record_id] =
                     NewArticleRecord(representative_article, clock)],
                 TRUE, TRUE)

\* The update of the existing article in process_article_group of the
\* sequential version: written without review, then the new articles of
\* the group are marked
SequentialUpdatePath(article_group, existing_article_id, its, arts, oc, clock) ==
    IF oc = "store_fail" THEN ContentResult(its, arts, TRUE, FALSE)
    ELSE ContentResult(MarkProcessed(its, NewIds(article_group)),
                       UpdateRecord(arts, existing_article_id, clock),
                       TRUE, arts[existing_article_id].present)

\* update_existing_article followed by the marking of process_content: the
\* article is written and reviewed under the name str(id); a rejected
\* article is deleted; the new articles are marked when the review passed
UpdateExistingPath(article_group, existing_article_id, its, arts, oc, clock) ==
    IF oc = "store_fail" THEN ContentResult(its, arts, TRUE, FALSE)
    ELSE IF ~arts[existing_article_id].present
         THEN ContentResult(its, arts, TRUE, FALSE)
    ELSE IF oc = "review_fail"
         THEN ContentResult(
                  ResetByName(its, IdRef(existing_article_id)),
                  [arts EXCEPT ![existing_article_id] = NoArticle],
                  TRUE, FALSE)
    ELSE ContentResult(MarkProcessed(its, NewIds(article_group)),
                       UpdateRecord(arts, existing_article_id, clock),
                       TRUE, TRUE)

\* The normal processing of a group: process_content, or the same
\* statements inside process_article_group of the sequential version
process_content(v, article_group, its, arts, oc, clock) ==
    LET existing_article_id == ExistingArticleFrom(article_group, 1)
    IN  IF oc = "no_content" THEN ContentResult(its, arts, FALSE, FALSE)
        ELSE IF oc = "raise" THEN ContentResult(its, arts, FALSE, FALSE)
        ELSE IF existing_article_id = 0
             THEN CreatePath(article_group, its, arts, oc, clock)
        ELSE IF v = "sequential"
             THEN SequentialUpdatePath(article_group, existing_article_id,
                                       its, arts, oc, clock)
        ELSE UpdateExistingPath(article_group, existing_article_id,
                                its, arts, oc, clock)

----------------------------------------------------------------------------
(* main of createArticles/runSequentialPipeline.py: the duplicate check,   *)
(* the grouping of the unprocessed items with the active articles, one     *)
(* process_article_group per group, and the extended check at the end.     *)

PEmbs == {E1, E85, E89}

\* NewsArticle at the start: at most the article written for item 1, found
\* by the uniqueName create_news_article_record stored in NewsResult
PipelineArticles(its) ==
    {[a \in ArtIds |->
        IF a = 1 /\ status # "none"
        THEN [ArticleFor(its, 1, status, "name") EXCEPT !.emb = e]
        ELSE NoArticle] :
      status \in {"NEW", "ARCHIVED", "none"}, e \in {<<>>, E89}}

Init ==
    /\ variant \in {"sequential", "dataPrep"}
    /\ items \in ItemTablesOver(PEmbs, {"none", "url"})
    /\ articles \in PipelineArticles(items)
    /\ now = 1
    /\ returned = <<>>
    /\ events = {}
    /\ runs = 0
    /\ raised = FALSE
    /\ gNew = <<>>
    /\ gExisting = <<>>
    /\ gThreshold = T85
    /\ gGroups = <<>>
    /\ gDone = FALSE
    /\ pc = "initial"
    /\ gi = 0
    /\ ai = 0
    /\ merged = {}
    /\ failed = {}
    /\ marked = {}
    /\ built = {}
    /\ regenerated = {}
    /\ reports = {}
    /\ procs = <<>>
    /\ TopicIdle
    /\ RunIdle
    /\ FetchIdle

\* The branches of check_similarity_and_update in which an attempted merge
\* ends without the article being updated
FailTags == {"lookup_raise", "lookup_miss", "gen_raise", "update_false"}

\* The ids of a returned list
IdsOf(ids) == {ids[k] : k \in 1..Len(ids)}

\* merged and failed after a call of check_similarity_and_update
MergedAfter(r) == merged \cup IdsOf(r.ids)

FailedAfter(r) ==
    (failed \cup {e.item : e \in {x \in r.events : x.tag \in FailTags}})
        \ MergedAfter(r)

\* The items a step has set to isProcessed
Flipped(its) ==
    {i \in DOMAIN items : ~items[i].isProcessed /\ its[i].isProcessed}

\* get_unprocessed_articles(): the rows with isProcessed = False
UnprocessedArticles(its) ==
    [k \in 1..Len(Rows(its, FALSE)) |->
        [id |-> Rows(its, FALSE)[k].id, emb |-> Rows(its, FALSE)[k].emb,
         isNew |-> TRUE]]

\* get_active_articles(): the articles whose Status is not ARCHIVED; the
\* filter not_.eq("Status", "ARCHIVED") leaves out a row without Status
RECURSIVE ActiveUpTo(_, _)
ActiveUpTo(arts, a) ==
    IF a = 0 THEN <<>>
    ELSE IF arts[a].present /\ arts[a].Status \notin {"ARCHIVED", "null"}
         THEN Append(ActiveUpTo(arts, a - 1),
                     [id |-> a, emb |-> arts[a].emb, isNew |-> FALSE])
         ELSE ActiveUpTo(arts, a - 1)

ActiveArticles(arts) == ActiveUpTo(arts, Len(arts))

\* await check_similarity_and_update(threshold=0.89) at the start of main
InitialCheck ==
    /\ pc = "initial"
    /\ \/ /\ \E oracle \in Oracles(items, T89) :
               \E r \in {check_similarity_and_update(items, articles, T89,
                                                     oracle, now)} :
                   /\ items' = r.items
                   /\ articles' = r.articles
                   /\ returned' = r.ids
                   /\ events' = r.events
                   /\ merged' = MergedAfter(r)
                   /\ failed' = FailedAfter(r)
          /\ raised' = FALSE
          /\ pc' = "fetch"
       \/ \* the call raises: "except Exception" of main, then "finally"
          /\ raised' = TRUE
          /\ pc' = "final"
          /\ UNCHANGED <<items, articles, returned, events, merged, failed>>
    /\ UNCHANGED <<now, runs, gvars, variant, gi, ai, procs, tvars, rvars, fvars>>
    /\ UNCHANGED <<marked, built, regenerated, reports>>

\* get_all_active_news() and group_similar_articles(..., threshold=0.85);
\* without unprocessed articles main runs the extended check and returns
FetchAndGroup ==
    /\ pc = "fetch"
    /\ IF UnprocessedArticles(items) = <<>>
       THEN /\ pc' = "extended"
            /\ UNCHANGED <<gvars, gi, ai>>
       ELSE /\ gNew' = UnprocessedArticles(items)
            /\ gExisting' = ActiveArticles(articles)
            /\ gThreshold' = T85
            /\ gGroups' = group_similar_articles(UnprocessedArticles(items),
                                                 ActiveArticles(articles), T85)
            /\ gDone' = TRUE
            /\ gi' = 1
            /\ ai' = 1
            /\ pc' = "check"
    /\ UNCHANGED <<dbvars, cvars, variant, hvars, procs, tvars, rvars, fvars>>

\* The main loop ending after the group it has just handled
GroupsEnd == gi' = 0 /\ ai' = 0 /\ pc' = "final"

\* The loop "for group in groups" moves to the next group
NextGroup ==
    IF gi < Len(gGroups)
    THEN gi' = gi + 1 /\ ai' = 1 /\ pc' = "check"
    ELSE gi' = 0 /\ ai' = 0 /\ pc' = "final"

\* The loop "for article in article_group" moves to the next article, and
\* to the normal processing after the last one
NextArticle ==
    IF ai < Len(gGroups[gi])
    THEN gi' = gi /\ ai' = ai + 1 /\ pc' = "check"
    ELSE gi' = gi /\ ai' = 0 /\ pc' = "content"

\* "for a in article_group: mark_article_as_processed(a["id"])": the ids
\* passed, each with the kind of article it was taken from
PassedGroup(article_group) ==
    {[id |-> article_group[k].id, isNew |-> article_group[k].isNew] :
        k \in 1..Len(article_group)}

PassedNew(article_group) == {x \in PassedGroup(article_group) : x.isNew}

\* The ids the normal processing of a group passes to
\* mark_article_as_processed
PassedByContent(v, article_group, arts, oc) ==
    LET existing_article_id == ExistingArticleFrom(article_group, 1)
    IN  IF oc \in {"no_content", "raise", "store_fail"} THEN {}
        ELSE IF existing_article_id = 0
             THEN IF oc = "review_fail" THEN {} ELSE PassedGroup(article_group)
        ELSE IF v = "sequential" THEN PassedNew(article_group)
        ELSE IF ~arts[existing_article_id].present \/ oc = "review_fail"
             THEN {}
        ELSE PassedNew(article_group)

\* What an update of the existing article of a group did: whether the
\* article was in the table before and after, whether the update passed,
\* and the new articles of the group that were marked
GroupUpdate(article_group, its, arts, oc, c) ==
    LET existing_article_id == ExistingArticleFrom(article_group, 1)
    IN  IF existing_article_id = 0 \/ oc \in {"no_content", "raise"} THEN {}
        ELSE {[art |-> existing_article_id,
               presentBefore |-> arts[existing_article_id].present,
               update_success |-> c.wrote,
               presentAfter |-> c.articles[existing_article_id].present,
               flipped |-> {i \in NewIds(article_group) :
                              ~its[i].isProcessed /\ c.items[i].isProcessed}]}

\* process_article_group, one turn of its first loop: an article with a
\* "Status" is passed over; for a new one check_for_similar_articles runs,
\* and when it returns True every article of the group is marked as
\* processed and process_article_group returns
CheckArticle ==
    /\ pc = "check"
    /\ IF ~gGroups[gi][ai].isNew
       THEN /\ NextArticle
            /\ UNCHANGED <<dbvars, returned, events, hvars, passed, handled>>
       ELSE \E oracle \in Oracles(items, T89) :
              \E c \in {check_for_similar_articles(variant, gGroups[gi][ai],
                            items, articles, IF SimilarIds(gGroups[gi][ai], items) = {}
                                             THEN <<>> ELSE oracle, now)} :
                 /\ articles' = c.articles
                 /\ returned' = IF c.called THEN c.ids ELSE returned
                 /\ events' = IF c.called THEN c.events ELSE events
                 /\ merged' = MergedAfter(c)
                 /\ failed' = FailedAfter(c)
                 /\ reports' = reports \cup
                        {[item |-> gGroups[gi][ai].id, found |-> c.found,
                          result |-> c.result]}
                 /\ IF c.result
                    THEN /\ items' = MarkProcessed(c.items, GroupIds(gGroups[gi]))
                         /\ marked' = marked \cup
                                {[item |-> i, by |-> "similarity"] :
                                    i \in {j \in DOMAIN items :
                                             /\ j \in GroupIds(gGroups[gi])
                                             /\ ~c.items[j].isProcessed}}
                         /\ passed' = passed \cup PassedGroup(gGroups[gi])
                         /\ handled' = handled \cup
                                {[g |-> gi, raised |-> FALSE]}
                         /\ NextGroup
                    ELSE /\ items' = c.items
                         /\ marked' = marked
                         /\ UNCHANGED <<passed, handled>>
                         /\ NextArticle
                 /\ UNCHANGED <<now, built, regenerated>>
    /\ UNCHANGED <<runs, raised, gvars, variant, procs, tvars>>
    /\ UNCHANGED <<finals, groupUpdates, spc, fvars>>

\* The normal processing of the group, after no check returned True
ProcessContent ==
    /\ pc = "content"
    /\ \E oc \in ContentOutcomes :
         \E c \in {process_content(variant, gGroups[gi], items, articles, oc, now)} :
             /\ items' = c.items
             /\ articles' = c.articles
             /\ marked' = marked \cup
                    {[item |-> i, by |-> "content"] : i \in Flipped(c.items)}
             /\ built' = built \cup
                    (IF c.wrote THEN NewIds(gGroups[gi]) ELSE {})
             /\ regenerated' = regenerated \cup
                    (IF c.generated THEN NewIds(gGroups[gi]) \cap merged ELSE {})
             /\ passed' = passed \cup
                    PassedByContent(variant, gGroups[gi], articles, oc)
             /\ handled' = handled \cup {[g |-> gi, raised |-> oc = "raise"]}
             /\ groupUpdates' = groupUpdates \cup
                    GroupUpdate(gGroups[gi], items, articles, oc, c)
    /\ NextGroup
    /\ UNCHANGED <<now, cvars, gvars, variant, merged, failed, reports, procs, tvars>>
    /\ UNCHANGED <<finals, spc, fvars>>

\* check_processed_articles_similarity() in the finally block of main:
\* threshold 0.75 in runSequentialPipeline.py, 0.89 in dataPrep
check_processed_articles_similarity ==
    /\ \/ /\ \E th \in {IF variant = "sequential" THEN T75 ELSE T89} :
               \E oracle \in Oracles(items, th) :
                 \E r \in {check_similarity_and_update(items, articles, th,
                                                       oracle, now)} :
                   /\ items' = r.items
                   /\ articles' = r.articles
                   /\ returned' = r.ids
                   /\ events' = r.events
                   /\ merged' = MergedAfter(r)
                   /\ failed' = FailedAfter(r)
          /\ raised' = FALSE
       \/ \* check_similarity_and_update raises
          /\ raised' = TRUE
          /\ UNCHANGED <<items, articles, returned, events, merged, failed>>
    /\ finals' = finals + 1
    /\ UNCHANGED <<now, runs, gvars, variant, gi, ai, procs, tvars>>
    /\ UNCHANGED <<marked, built, regenerated, reports>>
    /\ UNCHANGED <<handled, passed, groupUpdates, spc, fvars>>

\* "await check_processed_articles_similarity()" and "return" when there
\* are no unprocessed articles; the finally block runs after it
ExtendedCheck ==
    /\ pc = "extended"
    /\ check_processed_articles_similarity
    /\ pc' = "final"

\* The finally block of main
FinalCheck ==
    /\ pc = "final"
    /\ check_processed_articles_similarity
    /\ pc' = "done"

Next ==
    \/ InitialCheck
    \/ FetchAndGroup
    \/ CheckArticle
    \/ ProcessContent
    \/ ExtendedCheck
    \/ FinalCheck

Spec == Init /\ [][Next]_vars

----------------------------------------------------------------------------
(* Two invocations of check_similarity_and_update at the same time, on the *)
(* same database: the standalone createArticles/run_similarity_check.py    *)
(* and the call at the start of main in runSequentialPipeline.py.  Each    *)
(* invocation has its own locals; the database calls of one invocation     *)
(* may fall between the database calls of the other.  The code takes no    *)
(* lock and opens no transaction.                                          *)

Procs == {"standalone", "pipeline"}

CEmbs == {E1, E89}

\* The locals of one invocation: the two lists read at the start,
\* the position in unprocessed_articles, the article row read by the lookup
\* (existing_article), similar_processed, what the collaborators will do
\* for this item, and the merges completed
ProcStart ==
    [pc |-> "start", unprocessed |-> <<>>, processed |-> <<>>, k |-> 0,
     article_id |-> 0, existing_article |-> NoArticle, similar |-> <<>>,
     oc |-> "ok", merges |-> {}]

\* continue: on to the next unprocessed item, or return after the last
NextItem(l) ==
    IF l.k < Len(l.unprocessed)
    THEN [l EXCEPT !.pc = "resolve", !.k = @ + 1, !.article_id = 0,
                   !.existing_article = NoArticle, !.similar = <<>>,
                   !.oc = "ok"]
    ELSE [l EXCEPT !.pc = "done", !.k = 0, !.article_id = 0,
                   !.existing_article = NoArticle, !.similar = <<>>,
                   !.oc = "ok"]

\* The database at the start: item 1 is processed and has its article,
\* the last item is not processed
ConcItems ==
    {t \in ItemTablesOver(CEmbs, {"none"}) :
        t[1].isProcessed /\ ~t[NItems].isProcessed}

ConcArticles(its) ==
    [a \in ArtIds |->
        IF a = 1 THEN ArticleFor(its, 1, "NEW", "id") ELSE NoArticle]

CInit ==
    /\ items \in ConcItems
    /\ articles = ConcArticles(items)
    /\ now = 1
    /\ returned = <<>>
    /\ events = {}
    /\ runs = 0
    /\ raised = FALSE
    /\ gNew = <<>>
    /\ gExisting = <<>>
    /\ gThreshold = T85
    /\ gGroups = <<>>
    /\ gDone = FALSE
    /\ variant = "sequential"
    /\ pc = "idle"
    /\ gi = 0
    /\ ai = 0
    /\ merged = {}
    /\ failed = {}
    /\ marked = {}
    /\ built = {}
    /\ regenerated = {}
    /\ reports = {}
    /\ procs = [p \in Procs |-> ProcStart]
    /\ TopicIdle
    /\ RunIdle
    /\ FetchIdle

\* The reads of the unprocessed and of the processed rows; with either
\* empty the invocation returns
ReadTables(p) ==
    /\ procs[p].pc = "start"
    /\ procs' = [procs EXCEPT ![p] =
          IF Rows(items, FALSE) = <<>> \/ Rows(items, TRUE) = <<>>
          THEN [@ EXCEPT !.pc = "done"]
          ELSE [@ EXCEPT !.pc = "resolve", !.k = 1,
                         !.unprocessed = Rows(items, FALSE),
                         !.processed = Rows(items, TRUE)]]
    /\ UNCHANGED <<dbvars, cvars, gvars, pvars, hvars, tvars, rvars, fvars>>

\* For the item at position k: the scan and the sort on the lists read at
\* the start, then the reads of the matched NewsResults row and of the
\* article; the article row read is kept in existing_article
Resolve(p) ==
    /\ procs[p].pc = "resolve"
    /\ \E oc \in Outcomes :
        LET l == procs[p]
            unprocessed == l.unprocessed[l.k]
            similar_processed ==
                SortDesc(SimilarFrom(unprocessed, l.processed, 1, T89))
            article_id == LookupArticle(articles, similar_processed[1].article)
        IN  procs' = [procs EXCEPT ![p] =
              IF unprocessed.emb = <<>> \/ similar_processed = <<>>
              THEN NextItem(l)
              ELSE IF oc = "lookup_raise" THEN NextItem(l)
              ELSE IF ~items[similar_processed[1].article.id].isProcessed
                   THEN NextItem(l)
              ELSE IF article_id = 0 THEN NextItem(l)
              ELSE IF IsArchivedOrDeleted(articles[article_id].Status)
                   THEN NextItem(l)
              ELSE [l EXCEPT !.pc = "commit", !.article_id = article_id,
                             !.existing_article = articles[article_id],
                             !.similar = similar_processed, !.oc = oc]]
    /\ UNCHANGED <<dbvars, cvars, gvars, pvars, hvars, tvars, rvars, fvars>>

\* The generation, then update_article with the sourceURL combined from the
\* row read before, then the write of isProcessed
Commit(p) ==
    /\ procs[p].pc = "commit"
    /\ LET l == procs[p]
           unprocessed == l.unprocessed[l.k]
           written == l.oc \in {"ok", "mark_raise"}
                         /\ articles[l.article_id].present
           marks == written /\ l.oc = "ok"
       IN  /\ articles' =
                 IF written
                 THEN [articles EXCEPT ![l.article_id] =
                         [@ EXCEPT !.rev = @ + 1,
                                   !.Status = "UPDATED",
                                   !.sourceURL = CombinedSourceURL(
                                       l.existing_article, l.similar, unprocessed),
                                   !.created_at = now]]
                 ELSE articles
           /\ items' =
                 IF marks
                 THEN [items EXCEPT ![unprocessed.id].isProcessed = TRUE]
                 ELSE items
           /\ procs' = [procs EXCEPT ![p] =
                 NextItem([l EXCEPT !.merges =
                     IF marks
                     THEN @ \cup {[item |-> unprocessed.id, art |-> l.article_id]}
                     ELSE @])]
    /\ UNCHANGED <<now, cvars, gvars, pvars, hvars, tvars, rvars, fvars>>

CNext == \E p \in Procs : ReadTables(p) \/ Resolve(p) \/ Commit(p)

SpecConc == CInit /\ [][CNext]_vars

----------------------------------------------------------------------------
(* check_similarity_and_update from its first statement: the client and    *)
(* the model are set up and the two lists are read before the loop, none   *)
(* of it inside a try block.                                               *)

\* What the collaborators do before the loop:
\*   init_raise              SupabaseClient() or initialize_model raises
\*   read_unprocessed_raise  the query for isProcessed = False raises
\*   read_processed_raise    the query for isProcessed = True raises
EntryOutcomes ==
    {"ok", "init_raise", "read_unprocessed_raise", "read_processed_raise"}

\* The exception leaves the function: nothing is returned
Raised(its, arts) ==
    [items |-> its, articles |-> arts, ids |-> <<>>, events |-> {},
     raised |-> TRUE]

\* One call with the collaborators' behaviour before the loop (entry) and
\* inside it (oracle)
CallFromEntry(its, arts, th, entry, oracle, clock) ==
    LET r == check_similarity_and_update(its, arts, th, oracle, clock)
    IN  IF entry = "init_raise" THEN Raised(its, arts)
        ELSE IF entry = "read_unprocessed_raise" THEN Raised(its, arts)
        ELSE IF Rows(its, FALSE) # <<>> /\ entry = "read_processed_raise"
             THEN Raised(its, arts)
        ELSE [items |-> r.items, articles |-> r.articles, ids |-> r.ids,
              events |-> r.events, raised |-> FALSE]

\* One call of check_similarity_and_update(threshold) by a caller
CallCheck ==
    /\ runs < MaxRuns
    /\ \E th \in CheckThresholds : \E entry \in EntryOutcomes :
         \E oracle \in Oracles(items, th) :
           \E r \in {CallFromEntry(items, articles, th, entry, oracle, now)} :
             /\ items' = r.items
             /\ articles' = r.articles
             /\ returned' = r.ids
             /\ events' = r.events
             /\ raised' = r.raised
    /\ runs' = runs + 1
    /\ UNCHANGED <<now, gvars, pvars, hvars, procs, tvars, rvars, fvars>>

SpecCall == MInit /\ [][CallCheck]_vars

----------------------------------------------------------------------------
(* The duplicate check on a database whose embeddings come from models of  *)
(* different dimensions.                                                   *)

DEmbs == {E1, E89, EShort}

DInit ==
    /\ items \in ItemTablesOver(DEmbs, {"none"})
    /\ articles \in ArticleTables(items, {"NEW"})
    /\ now = 1
    /\ returned = <<>>
    /\ events = {}
    /\ runs = 0
    /\ raised = FALSE
    /\ gNew = <<>>
    /\ gExisting = <<>>
    /\ gThreshold = T85
    /\ gGroups = <<>>
    /\ gDone = FALSE
    /\ PipelineIdle
    /\ TopicIdle
    /\ RunIdle
    /\ FetchIdle

SpecDims == DInit /\ [][MNext]_vars

----------------------------------------------------------------------------
(* match_article_with_topics of topic_matcher.py.  A score is kept as the  *)
(* exact fraction [num, den].                                              *)

\* Words the headline and the content are made of
TextWords == {"draft", "Pick", "round", "trade"}

\* The keyword lists of the topics
TopicKeywords ==
    {<<>>,
     <<"TRADE">>,
     <<"draft", "pick">>,
     <<"draft", "pick", "round">>,
     <<"draft", "pick", "round", "TRADE">>}

\* str.lower()
Lower(w) ==
    CASE w = "Pick" -> "pick"
      [] w = "TRADE" -> "trade"
      [] OTHER -> w

\* "keyword_lower in full_content.lower()"
Contains(text, keyword) == Lower(keyword) \in {Lower(w) : w \in text}

\* keyword_count after the loop over topic_keywords
RECURSIVE keyword_count(_, _)
keyword_count(topic_keywords, text) ==
    IF topic_keywords = <<>> THEN 0
    ELSE (IF Contains(text, Head(topic_keywords)) THEN 1 ELSE 0)
         + keyword_count(Tail(topic_keywords), text)

\* score = keyword_count / len(topic_keywords) if topic_keywords else 0
KeywordScore(topic_keywords, text) ==
    IF topic_keywords = <<>>
    THEN [num |-> 0, den |-> 1]
    ELSE [num |-> keyword_count(topic_keywords, text),
          den |-> Len(topic_keywords)]

ScoreGE(a, b) == a.num * b.den >= b.num * a.den
\* A comparison that also lets an equal score through
ScoreAtLeast(a, b) == a.num * b.den >= b.num * a.den
ScoreGT(a, b) == a.num * b.den > b.num * a.den
ScoreAdd(a, b) == [num |-> a.num * b.den + b.num * a.den, den |-> a.den * b.den]

\* 0.3 of "if score >= 0.3", 0.3 of "score += 0.3", 0.5 of "score >= 0.5"
ConfirmThreshold == [num |-> 3, den |-> 10]
Boost == [num |-> 3, den |-> 10]
AcceptThreshold == [num |-> 1, den |-> 2]

\* What the LLM does when asked: it answers true, it answers false (or
\* without "is_match"), or the call or the parsing of its answer fails
LlmAnswers == {"true", "false", "fail"}

\* _confirm_match_with_llm: is_match of the answer, False on any failure
confirm_match_with_llm(answer) == answer = "true"

\* A pre-filter that lets every topic through
NeedsConfirmationAlways(score) == TRUE

\* "if score >= 0.3"
NeedsConfirmation(score) == ScoreGE(score, ConfirmThreshold)

\* The loop "for topic in topics" from position k on
RECURSIVE MatchLoop(_, _, _, _, _, _, _)
MatchLoop(topics, text, answers, k, best_match, best_score, called) ==
    IF k > Len(topics)
    THEN [best_match |-> best_match, called |-> called]
    ELSE
        LET keyword_score == KeywordScore(topics[k].Keywords, text)
            asked == NeedsConfirmation(keyword_score)
            llm_match == asked /\ confirm_match_with_llm(answers[k])
            score == IF llm_match THEN ScoreAdd(keyword_score, Boost)
                     ELSE keyword_score
            better == ScoreGT(score, best_score)
                        /\ ScoreGE(score, AcceptThreshold)
        IN  MatchLoop(topics, text, answers, k + 1,
                      IF better THEN k ELSE best_match,
                      IF better THEN score ELSE best_score,
                      IF asked THEN called \cup {k} ELSE called)

\* match_article_with_topics; the returned topic is given by its position
\* in topics, 0 for None
match_article_with_topics(topics, text, answers) ==
    IF topics = <<>>
    THEN [best_match |-> 0, called |-> {}]
    ELSE MatchLoop(topics, text, answers, 1, 0, [num |-> 0, den |-> 1], {})

TopicLists ==
    UNION {[1..n -> {[Keywords |-> k] : k \in TopicKeywords}] :
              n \in 0..MaxTopics}

TInit ==
    /\ tTopics \in TopicLists
    /\ tText \in SUBSET TextWords
    /\ tAnswers \in [1..Len(tTopics) -> LlmAnswers]
    /\ tResult = 0
    /\ tCalled = {}
    /\ tDone = FALSE
    /\ gNew = <<>>
    /\ gExisting = <<>>
    /\ gThreshold = T85
    /\ gGroups = <<>>
    /\ gDone = FALSE
    /\ DbIdle
    /\ PipelineIdle
    /\ RunIdle
    /\ FetchIdle

\* One call of match_article_with_topics
MatchArticle ==
    /\ ~tDone
    /\ \E r \in {match_article_with_topics(tTopics, tText, tAnswers)} :
          /\ tResult' = r.best_match
          /\ tCalled' = r.called
    /\ tDone' = TRUE
    /\ UNCHANGED <<tTopics, tText, tAnswers>>
    /\ UNCHANGED <<gvars, dbvars, cvars, pvars, hvars, procs, rvars, fvars>>

TNext == MatchArticle

SpecTopic == TInit /\ [][TNext]_vars

----------------------------------------------------------------------------
(* The status job (createArticles/statusManagement) next to a run of the   *)
(* pipeline.  The clock counts hours.                                      *)

\* timedelta(hours=2) and timedelta(days=2), in hours
TwoHours == 2
TwoDays == 48

\* The status the age of an article gives it
StatusByAge(created_at, clock) ==
    IF created_at < clock - TwoDays THEN "ARCHIVED"
    ELSE IF created_at < clock - TwoHours THEN "OLD"
    ELSE "NEW"

\* update_missing_statuses: every article without Status gets the status
\* of its age
update_missing_statuses(arts, clock) ==
    [a \in DOMAIN arts |->
        IF arts[a].present /\ arts[a].Status = "null"
        THEN [arts[a] EXCEPT !.Status = StatusByAge(arts[a].created_at, clock)]
        ELSE arts[a]]

\* cleanup_archived_articles: every article gets the status of its age
cleanup_archived_articles(arts, clock) ==
    [a \in DOMAIN arts |->
        IF arts[a].present
        THEN [arts[a] EXCEPT !.Status = StatusByAge(arts[a].created_at, clock)]
        ELSE arts[a]]

\* The loop of update_article_statuses over the articles that have a Status
\* other than ARCHIVED
AgeStatuses(arts, clock) ==
    [a \in DOMAIN arts |->
        IF ~arts[a].present \/ arts[a].Status \in {"ARCHIVED", "null"}
        THEN arts[a]
        ELSE IF arts[a].Status = "UPDATED"
                  /\ arts[a].created_at >= clock - TwoDays
             THEN arts[a]
        ELSE IF arts[a].created_at < clock - TwoDays
             THEN [arts[a] EXCEPT !.Status = "ARCHIVED"]
        ELSE IF arts[a].created_at < clock - TwoHours
             THEN [arts[a] EXCEPT !.Status = "OLD"]
        ELSE arts[a]]

\* update_article_statuses: update_missing_statuses, then the loop
update_article_statuses(arts, clock) ==
    AgeStatuses(update_missing_statuses(arts, clock), clock)

\* What the database does for one of the functions: it answers, or the
\* first query raises and the function prints the error and returns
JobOutcomes == {"ok", "raise"}

\* The hours the clock can go forward in one step
ClockSteps == {TwoDays}

\* NewsResults at the start: only the last item is still unprocessed
StatusItems ==
    {t \in ItemTablesOver({E1}, {"none"}) :
        \A i \in ItemIds : t[i].isProcessed <=> i # NItems}

\* NewsArticle at the start: the article written for item 1, with any
\* status its age allows
StatusArticles(its) ==
    {[a \in ArtIds |->
        IF a = 1
        THEN [ArticleFor(its, 1, sc[1], "name") EXCEPT
                 !.emb = E1, !.created_at = sc[2]]
        ELSE NoArticle] :
      sc \in {x \in {"null", "NEW", "OLD", "UPDATED", "ARCHIVED"}
                       \X {StartClock - TwoDays - 1, StartClock - 1} :
                 x[1] = "ARCHIVED" => x[2] < StartClock - TwoDays}}

SInit ==
    /\ variant = "dataPrep"
    /\ items \in StatusItems
    /\ articles \in UNION {StatusArticles(its) : its \in StatusItems}
    /\ articles[1].NewsResult = NameRef(items[1].uniqueName)
    /\ now = StartClock
    /\ returned = <<>>
    /\ events = {}
    /\ runs = 0
    /\ raised = FALSE
    /\ gNew = <<>>
    /\ gExisting = <<>>
    /\ gThreshold = T85
    /\ gGroups = <<>>
    /\ gDone = FALSE
    /\ pc = "initial"
    /\ gi = 0
    /\ ai = 0
    /\ merged = {}
    /\ failed = {}
    /\ marked = {}
    /\ built = {}
    /\ regenerated = {}
    /\ reports = {}
    /\ procs = <<>>
    /\ TopicIdle
    /\ finals = 0
    /\ handled = {}
    /\ passed = {}
    /\ groupUpdates = {}
    /\ spc = "missing"
    /\ FetchIdle

\* One function of the status job writes the table
StatusStep(arts, next) ==
    /\ \E oc \in JobOutcomes :
          articles' = IF oc = "ok" THEN arts ELSE articles
    /\ spc' = next
    /\ UNCHANGED <<items, now, cvars, gvars, pvars, hvars, procs, tvars>>
    /\ UNCHANGED <<finals, handled, passed, groupUpdates, fvars>>

\* main of run_status_management.py: the three functions in its order
UpdateMissing ==
    /\ spc = "missing"
    /\ StatusStep(update_missing_statuses(articles, now), "cleanup")

CleanupArchived ==
    /\ spc = "cleanup"
    /\ StatusStep(cleanup_archived_articles(articles, now), "update")

\* after the last function the job waits for its next start
UpdateStatuses ==
    /\ spc = "update"
    /\ StatusStep(update_article_statuses(articles, now), "missing")

\* Time passes
Tick ==
    /\ \E d \in ClockSteps :
          /\ now + d <= MaxClock
          /\ now' = now + d
    /\ UNCHANGED <<items, articles, cvars, gvars, pvars, hvars, procs, tvars, rvars, fvars>>

SNext ==
    \/ UpdateMissing
    \/ CleanupArchived
    \/ UpdateStatuses
    \/ Tick
    \/ Next

SpecStatus == SInit /\ [][SNext]_vars

----------------------------------------------------------------------------
(* Properties of group_similar_articles *)

\* Positions <<g, k>> of the returned groups
GroupPositions(groups) ==
    {p \in (1..Len(groups)) \X (1..(MaxNew + MaxExisting + 2)) :
        p[2] <= Len(groups[p[1]])}

\* How often the new article with this id occurs in the returned groups
NewOccurrences(groups, id) ==
    Cardinality({p \in GroupPositions(groups) :
        groups[p[1]][p[2]].isNew /\ groups[p[1]][p[2]].id = id})

\* Existing articles of one group
ExistingIn(group) == {k \in 1..Len(group) : ~group[k].isNew}

\* Existing articles above threshold against a new article
AboveThreshold(a, existing, th) ==
    {k \in 1..Len(existing) :
        /\ ~NoVec(a, existing[k])
        /\ SimGT(cosine_similarity(a.emb, existing[k].emb), th)}

\* C1: with ids unique within new_articles and within existing_articles,
\* every new article occurs exactly once in the returned groups.
C1_Partition ==
    gDone => \A i \in 1..Len(gNew) : NewOccurrences(gGroups, gNew[i].id) = 1

\* C2: no returned group holds more than one existing article.
C2_SingleExisting ==
    gDone => \A g \in 1..Len(gGroups) : Cardinality(ExistingIn(gGroups[g])) <= 1

\* C2 witness: a group absorbed an existing article although two or more
\* existing articles are above threshold against its anchor.
C2_Witness ==
    /\ gDone
    /\ \E g \in 1..Len(gGroups) :
          /\ ExistingIn(gGroups[g]) # {}
          /\ Cardinality(AboveThreshold(gGroups[g][1], gExisting, gThreshold)) >= 2

----------------------------------------------------------------------------
(* Properties of the pipeline *)

\* The items process_article_group marked in its similarity branch
MarkedBySimilarity == {m.item : m \in {x \in marked : x.by = "similarity"}}

\* All the items process_article_group and process_content marked
MarkedItems == {m.item : m \in marked}

\* C4: a processed item that shares the url or the uniqueName of an
\* unprocessed item is never its match: the item is not merged into that
\* item's article, and check_for_similar_articles does not return True for
\* it when the processed items it found are all of that kind.
C4_SelfExclusion ==
    /\ \A e \in events :
          e.tag = "merged" => ~IsSelf(items[e.best], items[e.item])
    /\ \A r \in reports :
          r.result =>
              \E p \in r.found :
                  p = r.item \/ ~IsSelf(items[p], items[r.item])

\* C5: an item whose attempted merge failed is not marked as processed by
\* the similarity branch of process_article_group.
C5_FailedMergeNotMarked ==
    \A i \in MarkedBySimilarity : i \notin failed

\* C7: an item merged by the duplicate check is not passed through the
\* normal content generation afterwards.
C7_MergedNotRegenerated == regenerated = {}

\* C8: an item marked as processed by process_article_group or
\* process_content was itself merged, or its group was turned into a
\* created or updated article.
C8_MarkedOnlyIfAbsorbed ==
    \A i \in MarkedItems : i \in merged \/ i \in built

\* Every URL of the first sourceURL is in the second
UrlsKept(before, after) ==
    \A k \in 1..Len(before) : UrlIn(before[k], after)

----------------------------------------------------------------------------
(* Properties of check_similarity_and_update *)

\* The processed items the last call compared against: those processed
\* before it started
ProcessedBefore ==
    {i \in DOMAIN items : items[i].isProcessed /\ ~InList(i, returned)}

\* The processed items that qualify as merge target for item u at th
Qualifying(u, th) ==
    {p \in ProcessedBefore :
        /\ ~IsSelf(items[p], items[u])
        /\ items[p].emb # <<>>
        /\ Len(items[p].emb) = Len(items[u].emb)
        /\ SimGE(cosine_similarity(items[u].emb, items[p].emb), th)}

Score(u, p) == cosine_similarity(items[u].emb, items[p].emb)

\* C3: the merge target is the qualifying processed item (score >= threshold)
\* with the highest score, the first of them in table order on a tie; with
\* no qualifying item no merge is attempted.
C3_BestMatch ==
    \A e \in events :
        /\ Qualifying(e.item, e.th) = {} =>
              e.best = 0 /\ e.tag \in {"no_match", "no_embedding"}
        /\ Qualifying(e.item, e.th) # {} =>
              /\ e.best \in Qualifying(e.item, e.th)
              /\ \A q \in Qualifying(e.item, e.th) :
                    /\ ~SimLess(Score(e.item, e.best), Score(e.item, q))
                    /\ ~SimLess(Score(e.item, q), Score(e.item, e.best))
                          => e.best <= q

\* C3 witness: an item was merged into its best match although an earlier
\* processed item qualified with a score exactly equal to the threshold.
C3_Witness ==
    \E e \in events :
        /\ e.tag = "merged"
        /\ \E q \in Qualifying(e.item, e.th) :
              /\ q < e.best
              /\ ~SimGT(Score(e.item, q), e.th)

\* C6: when the text generation raises for an item, the article is not
\* written, the id is not returned and the item stays unprocessed.
C6_GenerationFailure ==
    \A e \in events :
        e.tag = "gen_raise" =>
            /\ e.unchanged
            /\ ~e.processedAfter
            /\ ~e.reported
            /\ ~items[e.item].isProcessed
            /\ ~InList(e.item, returned)

\* C6 witness: the generation raised for an item whose target article was
\* resolved and could have been updated.
C6_Witness ==
    \E e \in events :
        /\ e.tag = "gen_raise"
        /\ e.art # 0
        /\ e.rowBefore.Status = "NEW"

\* C9: when the resolved article is ARCHIVED or DELETED, nothing is written,
\* the item stays unprocessed and its id is not returned.
C9_ArchivedTarget ==
    \A e \in events :
        (e.art # 0 /\ e.rowBefore.Status \in {"ARCHIVED", "DELETED"}) =>
            /\ e.unchanged
            /\ ~e.processedAfter
            /\ ~e.reported
            /\ ~InList(e.item, returned)

\* C9 witness: a merge was aborted on a DELETED article.
C9_Witness ==
    \E e \in events : e.tag = "archived" /\ e.rowBefore.Status = "DELETED"

\* A sourceURL that lists no URL twice
NoUrlTwice(sourceURL) ==
    \A j, k \in 1..Len(sourceURL) : j # k => sourceURL[j] # sourceURL[k]

\* C11: the sourceURL of every article lists each URL at most once, after
\* any number of merges into it.
C11_EachUrlOnce ==
    \A a \in ArtIds : articles[a].present => NoUrlTwice(articles[a].sourceURL)

\* C12: an item is marked and reported only by the branch that persisted
\* the article update, and then the article is UPDATED, carries the time of
\* the update and lists the item's url; when update_article returns False
\* the item stays unprocessed and unreported and nothing is written.
C12_CommitBeforeMark ==
    \A e \in events :
        /\ (e.processedAfter \/ e.reported) =>
              /\ e.tag = "merged"
              /\ e.processedAfter /\ e.reported
              /\ e.rowAfter.rev = e.rowBefore.rev + 1
              /\ e.rowAfter.Status = "UPDATED"
              /\ e.rowAfter.created_at = now
              /\ UrlIn(items[e.item].url, e.rowAfter.sourceURL)
              /\ articles[e.art].Status = "UPDATED"
              /\ UrlIn(items[e.item].url, articles[e.art].sourceURL)
              /\ items[e.item].isProcessed
              /\ InList(e.item, returned)
        /\ e.tag = "update_false" =>
              /\ e.unchanged
              /\ ~e.processedAfter
              /\ ~e.reported
              /\ ~items[e.item].isProcessed
              /\ ~InList(e.item, returned)

\* C12 witness: in one call an item was merged and reported while
\* update_article returned False for another item with a resolved article.
C12_Witness ==
    /\ \E e \in events : e.tag = "merged" /\ e.reported
    /\ \E e \in events : e.tag = "update_false" /\ e.art # 0

----------------------------------------------------------------------------
(* Properties of concurrent invocations *)

\* C13: once both invocations have returned, the article of every completed
\* merge lists the url of the merged item: no update is lost.
C13_NoLostUpdate ==
    (\A p \in DOMAIN procs : procs[p].pc = "done") =>
        \A p \in DOMAIN procs : \A m \in procs[p].merges :
            UrlIn(items[m.item].url, articles[m.art].sourceURL)

----------------------------------------------------------------------------
(* Properties of a call of check_similarity_and_update *)

\* C14: whatever collaborator fails, check_similarity_and_update returns a
\* list of ids; it does not raise.
C14_NeverRaises == ~raised

----------------------------------------------------------------------------
(* More properties of group_similar_articles *)

\* The similarity of two articles is exactly the threshold
AtThreshold(a, b, th) ==
    /\ ~NoVec(a, b)
    /\ SimGE(cosine_similarity(a.emb, b.emb), th)
    /\ ~SimGT(cosine_similarity(a.emb, b.emb), th)

\* C15: every article a group holds besides its anchor has a similarity to
\* the anchor strictly greater than the threshold; a similarity equal to
\* the threshold adds neither a new nor an existing article.
C15_StrictlyGreater ==
    gDone =>
        \A g \in 1..Len(gGroups) : \A k \in 2..Len(gGroups[g]) :
            /\ ~AtThreshold(gGroups[g][1], gGroups[g][k], gThreshold)
            /\ ~NoVec(gGroups[g][1], gGroups[g][k])
            /\ SimGT(cosine_similarity(gGroups[g][1].emb, gGroups[g][k].emb),
                     gThreshold)

\* C15 witness: an anchor left out a new article and an existing article
\* whose similarity to it is exactly the threshold.
C15_Witness ==
    /\ gDone
    /\ \E g \in 1..Len(gGroups) :
          /\ Len(gGroups[g]) = 1
          /\ \E i \in 1..Len(gNew) :
                AtThreshold(gGroups[g][1], gNew[i], gThreshold)
          /\ \E j \in 1..Len(gExisting) :
                /\ AtThreshold(gGroups[g][1], gExisting[j], gThreshold)
                /\ \A n \in 1..Len(gNew) : gNew[n].id # gExisting[j].id

\* C17: a new article without embedding is the only member of exactly one
\* group and occurs in no other group.
C17_NoEmbeddingAlone ==
    gDone =>
        \A i \in 1..Len(gNew) :
            gNew[i].emb = <<>> =>
                /\ NewOccurrences(gGroups, gNew[i].id) = 1
                /\ \E g \in 1..Len(gGroups) : gGroups[g] = <<gNew[i]>>

----------------------------------------------------------------------------
(* Properties of the dimension guard *)

\* The processed items of another, non-empty dimension than item u
OtherDimension(u) ==
    {p \in ProcessedBefore :
        items[p].emb # <<>> /\ Len(items[p].emb) # Len(items[u].emb)}

\* C16: the chosen processed item always has the dimension of the
\* unprocessed item, and a qualifying item of that dimension is chosen
\* whatever processed items of another dimension the scan met before it.
C16_DimensionGuard ==
    \A e \in events :
        /\ e.best # 0 => e.best \notin OtherDimension(e.item)
        /\ Qualifying(e.item, e.th) # {} => e.best \in Qualifying(e.item, e.th)

\* C16 witness: an item was merged into a processed item that comes after
\* a processed item of another dimension.
C16_Witness ==
    \E e \in events :
        /\ e.tag = "merged"
        /\ \E p \in OtherDimension(e.item) : p < e.best

----------------------------------------------------------------------------
(* Properties of match_article_with_topics *)

\* Topic k has less than 0.3 of its keywords in the text
BelowPreFilter(k) ==
    \/ tTopics[k].Keywords = <<>>
    \/ 10 * keyword_count(tTopics[k].Keywords, tText)
          < 3 * Len(tTopics[k].Keywords)

\* C18: the returned topic is one the LLM was asked about and answered
\* true for.
C18_OnlyConfirmed ==
    tDone /\ tResult # 0 =>
        tResult \in tCalled /\ tAnswers[tResult] = "true"

\* Scenario C: one topic with the keywords draft, pick, round; a text that
\* holds only "draft"; the LLM answers true
ScenarioC ==
    /\ tTopics = <<[Keywords |-> <<"draft", "pick", "round">>]>>
    /\ tText = {"draft"}
    /\ tAnswers = <<"true">>

\* C19: in scenario C no topic is assigned.
C19_SingleHitNotAssigned == tDone /\ ScenarioC => tResult = 0

\* C20: the LLM is asked about a topic exactly when at least 0.3 of the
\* topic's keywords are in the text; a topic below that, one without
\* keywords included, is not returned; when every topic is below it the
\* result is None.
C20_ConfirmationGate ==
    tDone =>
        /\ \A k \in DOMAIN tTopics :
              /\ k \in tCalled <=> ~BelowPreFilter(k)
              /\ BelowPreFilter(k) => tResult # k
        /\ (\A k \in DOMAIN tTopics : BelowPreFilter(k)) => tResult = 0

\* C20 witness: after a call with a topic without keywords, a topic with
\* one keyword of four in the text and a topic the LLM was asked about.
C20_Witness ==
    /\ tDone
    /\ \E k \in DOMAIN tTopics : tTopics[k].Keywords = <<>>
    /\ \E k \in DOMAIN tTopics :
          /\ Len(tTopics[k].Keywords) = 4
          /\ keyword_count(tTopics[k].Keywords, tText) = 1
          /\ k \notin tCalled
    /\ tCalled # {}


\* The final score of topic k: the share of its keywords in the text, plus
\* 0.3 when the LLM was asked and answered true
FinalScore(k) ==
    IF ~BelowPreFilter(k) /\ tAnswers[k] = "true"
    THEN ScoreAdd(KeywordScore(tTopics[k].Keywords, tText), Boost)
    ELSE KeywordScore(tTopics[k].Keywords, tText)

\* The topics whose final score is at least 0.5
Acceptable ==
    {k \in DOMAIN tTopics :
        2 * FinalScore(k).num >= FinalScore(k).den}

\* Topic j has a higher final score than topic k
Higher(j, k) ==
    FinalScore(j).num * FinalScore(k).den > FinalScore(k).num * FinalScore(j).den

\* C21: the returned topic is the first of the topics with the highest
\* final score among those at 0.5 or more; without such a topic, and for an
\* empty list, the result is None.
C21_BestTopic ==
    tDone =>
        IF Acceptable = {}
        THEN tResult = 0
        ELSE /\ tResult \in Acceptable
             /\ \A j \in Acceptable :
                   /\ ~Higher(j, tResult)
                   /\ ~Higher(tResult, j) => tResult <= j

\* C21 witness: the returned topic has a later topic with the same final
\* score and an earlier acceptable topic with a lower one.
C21_Witness ==
    /\ tDone
    /\ tResult # 0
    /\ \E j \in Acceptable :
          j > tResult /\ ~Higher(j, tResult) /\ ~Higher(tResult, j)
    /\ \E j \in Acceptable : j < tResult /\ Higher(tResult, j)


----------------------------------------------------------------------------
(* Properties of the anchors of group_similar_articles *)

\* The positions in existing_articles of the articles that are members of
\* the groups before group g
ExistingBefore(g) ==
    {j \in 1..Len(gExisting) :
        \E h \in 1..(g - 1) : \E k \in ExistingIn(gGroups[h]) :
            gGroups[h][k].id = gExisting[j].id}

\* The existing articles the anchor of group g could take: above threshold
\* and in no earlier group
ExistingCandidates(g) ==
    AboveThreshold(gGroups[g][1], gExisting, gThreshold) \ ExistingBefore(g)

\* C24: every group starts with a new article, its anchor; every other new
\* member is strictly above threshold against the anchor; the existing
\* member, if any, is the first article of existing_articles that is above
\* threshold against the anchor and in no earlier group.
C24_GreedyAnchor ==
    gDone =>
        \A g \in 1..Len(gGroups) :
            /\ gGroups[g][1].isNew
            /\ \A k \in 2..Len(gGroups[g]) :
                  gGroups[g][k].isNew =>
                      /\ ~NoVec(gGroups[g][1], gGroups[g][k])
                      /\ SimGT(cosine_similarity(gGroups[g][1].emb,
                                                 gGroups[g][k].emb), gThreshold)
            /\ \A k \in ExistingIn(gGroups[g]) :
                  \E j \in ExistingCandidates(g) :
                      /\ gExisting[j].id = gGroups[g][k].id
                      /\ \A i \in ExistingCandidates(g) : j <= i

----------------------------------------------------------------------------
(* Properties of a merge as a whole *)

\* C27: for every item the call handled, either the article was written
\* and the item is processed and reported, or no article was written and
\* the item is neither processed nor reported.
C27_MergeAllOrNothing ==
    \A e \in events :
        \/ ~e.unchanged /\ e.processedAfter /\ e.reported
        \/ e.unchanged /\ ~e.processedAfter /\ ~e.reported

----------------------------------------------------------------------------
(* Properties of a run of main *)

\* C26: when main has ended, process_article_group was called for every
\* group of the list, whichever of them raised, and the extended check was
\* called, also after a raise of the first check and without unprocessed
\* articles.
C26_AllGroupsThenFinalCheck ==
    pc = "done" =>
        /\ {h.g : h \in handled} = 1..Len(gGroups)
        /\ finals >= 1

\* C26 witness: main has ended, a group raised and a later group was
\* handled.
C26_Witness ==
    /\ pc = "done"
    /\ finals >= 1
    /\ \E h \in handled : h.raised /\ \E l \in handled : l.g > h.g

\* C28: when the update of the existing article of a group did not pass,
\* the article is still in the table and no new article of the group was
\* marked.
C28_FailedUpdateKeepsArticle ==
    variant = "dataPrep" =>
        \A u \in groupUpdates :
            u.presentBefore /\ ~u.update_success =>
                u.presentAfter /\ u.flipped = {}

\* C29: every id passed to mark_article_as_processed was taken from a new
\* article of the group.
C29_OnlyNewItemsMarked == \A x \in passed : x.isNew

----------------------------------------------------------------------------
(* Properties of the article statuses *)

\* C22: a step of the status job leaves UPDATED on every article that is
\* younger than 48 hours.
C22_UpdatedSticky ==
    [][spc' # spc =>
          \A a \in ArtIds :
              (/\ articles[a].present
               /\ articles[a].Status = "UPDATED"
               /\ now - articles[a].created_at < TwoDays)
                  => articles'[a].Status = "UPDATED"]_vars

\* C30: no step changes an article whose Status is ARCHIVED.
C30_ArchivedAbsorbing ==
    [][\A a \in ArtIds :
          (articles[a].present /\ articles[a].Status = "ARCHIVED")
              => articles'[a] = articles[a]]_vars


(***************************************************************************)
(* fetch_from_all_sources of getArticles/news_fetcher.py.  fetch_news is   *)
(* a collaborator here: a call raises or returns a list of items.          *)
(***************************************************************************)

\* The names of the configured sites and the values of their execute key
SiteNames == {"nfl", "espn"}
ExecuteFlags == {"true", "false", "absent"}
Sites == [name : SiteNames, execute : ExecuteFlags]

\* The items fetch_news hands back: the source is the one the extraction
\* wrote, a domain name
FetchedItem(id) == [id |-> id, source |-> "nfl.com"]
FetchedLists == {<<>>, <<FetchedItem("a")>>, <<FetchedItem("a"), FetchedItem("b")>>}
FetchOutcomes ==
    {[kind |-> "raise", items |-> <<>>]} \cup
    {[kind |-> "list", items |-> l] : l \in FetchedLists}

\* site.get("execute", True)
Executes(site) == site.execute # "false"

\* The items as they are, their source kept
KeepSource(news_items, name) == news_items

\* for item in news_items: item["source"] = site["name"]
WithSource(news_items, name) ==
    [i \in 1..Len(news_items) |-> [news_items[i] EXCEPT !.source = name]]

\* The sources lists up to a length
SourceLists(n) == UNION {[1..k -> Sites] : k \in 0..n}

\* The variables of group_similar_articles, at rest
GroupIdle ==
    /\ gNew = <<>>
    /\ gExisting = <<>>
    /\ gThreshold = T85
    /\ gGroups = <<>>
    /\ gDone = FALSE

\* fetch_from_all_sources is entered: all_news_items = []
FSInit ==
    /\ fSources \in SourceLists(MaxSources)
    /\ fpos = 1
    /\ fpc = "sites"
    /\ fCalls = <<>>
    /\ fAll = <<>>
    /\ fMaxRetries = 0
    /\ fRetry = 0
    /\ fResult = "none"
    /\ fLog = <<>>
    /\ fReturned = <<>>
    /\ GroupIdle
    /\ DbIdle
    /\ PipelineIdle
    /\ TopicIdle
    /\ RunIdle

\* One turn of "for site in sources": the call of fetch_news inside the
\* try, the items appended when there are any
FetchSite ==
    /\ fpc = "sites"
    /\ fpos <= Len(fSources)
    /\ IF Executes(fSources[fpos])
       THEN \E out \in FetchOutcomes :
              /\ fCalls' = Append(fCalls, [site |-> fpos, out |-> out])
              /\ fAll' = IF out.kind = "list" /\ out.items # <<>>
                         THEN fAll \o WithSource(out.items, fSources[fpos].name)
                         ELSE fAll
       ELSE UNCHANGED <<fCalls, fAll>>
    /\ fpos' = fpos + 1
    /\ UNCHANGED <<fSources, fpc, fMaxRetries, fRetry, fResult, fLog, fReturned>>
    /\ UNCHANGED <<gvars, dbvars, cvars, pvars, hvars, procs, tvars, rvars>>

\* return all_news_items
ReturnAll ==
    /\ fpc = "sites"
    /\ fpos > Len(fSources)
    /\ fpc' = "done"
    /\ fReturned' = fAll
    /\ UNCHANGED <<fSources, fpos, fCalls, fAll, fMaxRetries, fRetry, fResult, fLog>>
    /\ UNCHANGED <<gvars, dbvars, cvars, pvars, hvars, procs, tvars, rvars>>

FSNext ==
    \/ FetchSite
    \/ ReturnAll

SpecSources == FSInit /\ [][FSNext]_vars

(***************************************************************************)
(* Properties of fetch_from_all_sources                                    *)
(***************************************************************************)

\* The items a list of calls must have left in the result: those of the
\* calls that returned items, in the order of the calls, under the name of
\* the site
RECURSIVE ItemsOfCalls(_)
ItemsOfCalls(calls) ==
    IF calls = <<>>
    THEN <<>>
    ELSE LET c == calls[Len(calls)]
             got == IF c.out.kind = "list" THEN c.out.items ELSE <<>>
         IN ItemsOfCalls(SubSeq(calls, 1, Len(calls) - 1)) \o
                [i \in 1..Len(got) |->
                    [id |-> got[i].id, source |-> fSources[c.site].name]]

\* The sites the loop has passed
PassedSites == 1..(IF fpos > Len(fSources) THEN Len(fSources) ELSE fpos - 1)

\* C23: fetch_from_all_sources calls fetch_news once, in list order, for
\* each source whose execute flag is true and never for one whose flag is
\* false; a call that raised or returned nothing does not stop the later
\* calls; the result is the concatenation, in source order, of the items
\* returned, each with its source set to the name of its site.
C23_AllSourcesFetched ==
    /\ \A i, j \in 1..Len(fCalls) : i < j => fCalls[i].site < fCalls[j].site
    /\ \A i \in 1..Len(fCalls) : fSources[fCalls[i].site].execute # "false"
    /\ \A s \in PassedSites :
          fSources[s].execute = "true" =>
              \E i \in 1..Len(fCalls) : fCalls[i].site = s
    /\ fAll = ItemsOfCalls(fCalls)
    /\ fpc = "done" => /\ PassedSites = 1..Len(fSources)
                       /\ fReturned = ItemsOfCalls(fCalls)

\* A finished call in which a site raised, a later one returned items, and
\* a site was switched off
C23_Witness ==
    /\ fpc = "done"
    /\ \E s \in 1..Len(fSources) : fSources[s].execute = "false"
    /\ \E i, j \in 1..Len(fCalls) :
          /\ i < j
          /\ fCalls[i].out.kind = "raise"
          /\ fCalls[j].out.kind = "list"
          /\ fCalls[j].out.items # <<>>
    /\ fReturned # <<>>

(***************************************************************************)
(* fetch_news of getArticles/news_fetcher.py.  The crawler is a            *)
(* collaborator: an attempt raises or gives a result.  The extracted       *)
(* content is kept by what json.loads makes of it, as a whole and from     *)
(* its first "[" to its last "]".                                          *)
(***************************************************************************)

\* max_retries = 3 if is_github_actions else 1
ActionsMaxRetries == 3
LocalMaxRetries == 1
MaxRetriesValues == {LocalMaxRetries, ActionsMaxRetries}

\* What json.loads makes of a text: a JSONDecodeError, a list with usable
\* items, an empty list, a list without a usable item, an object with the
\* required keys, any other value
ParseKinds == {"error", "items", "empty", "bad", "dict", "other"}
ListKinds == {"items", "empty", "bad"}

\* A result without usable content: result is None, extracted_content is
\* None, extracted_content is the empty text
Blank(state) ==
    [state |-> state, brackets |-> FALSE, whole |-> "error", slice |-> "absent"]

\* The non-empty contents: brackets says that a "[" comes before the last
\* "]"; a text that is a list as a whole is its own slice, a slice that
\* parses is a list, and a text without the brackets is no list
Contents ==
    {c \in [state : {"content"}, brackets : BOOLEAN,
            whole : ParseKinds, slice : ListKinds \cup {"error", "absent"}] :
        /\ c.brackets <=> c.slice # "absent"
        /\ c.whole \in ListKinds => c.slice = c.whole}

Results == {Blank("content_None"), Blank("content_empty")} \cup Contents

\* crawler.arun inside the try of the loop
CrawlOutcomes ==
    {[kind |-> "raise", result |-> Blank("None")]} \cup
    {[kind |-> "result", result |-> r] : r \in Results}

\* if result and result.extracted_content
HasContent(result) == result.state = "content"

\* The counter left as it is
RetryUnchanged(retry_count) == retry_count

\* retry_count += 1, after an attempt without content and in the except
RetryAfterFailure(retry_count) == retry_count + 1

\* json_start, json_end and the json.loads of the slice or of the whole
ParsedData(content) ==
    IF content.brackets THEN content.slice ELSE content.whole

\* The rest of fetch_news after the loop: what it returns for a result
ExtractedItems(result) ==
    IF result.state \in {"None", "content_None"} THEN <<>>
    ELSE IF result.state = "content_empty" THEN <<>>
    ELSE CASE ParsedData(result) = "error" -> <<>>
           [] ParsedData(result) = "empty" -> <<>>
           [] ParsedData(result) = "other" -> <<>>
           [] ParsedData(result) = "bad" -> <<>>
           [] ParsedData(result) = "dict" -> <<"a">>
           [] ParsedData(result) = "items" -> <<"a">>

\* fetch_news is entered: result = None, retry_count = 0
FInit ==
    /\ fMaxRetries \in MaxRetriesValues
    /\ fRetry = 0
    /\ fResult = Blank("None")
    /\ fLog = <<>>
    /\ fReturned = <<>>
    /\ fpc = "crawl"
    /\ fSources = <<>>
    /\ fpos = 0
    /\ fCalls = <<>>
    /\ fAll = <<>>
    /\ GroupIdle
    /\ DbIdle
    /\ PipelineIdle
    /\ TopicIdle
    /\ RunIdle

\* One turn of "while retry_count <= max_retries"
CrawlAttempt ==
    /\ fpc = "crawl"
    /\ fRetry <= fMaxRetries
    /\ Len(fLog) < MaxCrawls
    /\ \E out \in CrawlOutcomes :
          /\ fLog' = Append(fLog, IF out.kind = "raise" THEN "raise"
                                  ELSE out.result.state)
          /\ fResult' = IF out.kind = "raise" THEN fResult ELSE out.result
          /\ IF out.kind = "result" /\ HasContent(out.result)
             THEN /\ fRetry' = fRetry
                  /\ fpc' = "parse"
             ELSE /\ fRetry' = RetryAfterFailure(fRetry)
                  /\ fpc' = IF fRetry' <= fMaxRetries THEN "crawl" ELSE "parse"
    /\ UNCHANGED <<fMaxRetries, fReturned, fSources, fpos, fCalls, fAll>>
    /\ UNCHANGED <<gvars, dbvars, cvars, pvars, hvars, procs, tvars, rvars>>

\* The statements after the loop, inside the outer try whose except
\* returns []
ParseContent ==
    /\ fpc = "parse"
    /\ \E oc \in {"ok", "raise"} :
          /\ oc = "raise" => HasContent(fResult)
          /\ fReturned' = IF oc = "raise" THEN <<>> ELSE ExtractedItems(fResult)
    /\ fpc' = "done"
    /\ UNCHANGED <<fMaxRetries, fRetry, fResult, fLog, fSources, fpos, fCalls, fAll>>
    /\ UNCHANGED <<gvars, dbvars, cvars, pvars, hvars, procs, tvars, rvars>>

FNext ==
    \/ CrawlAttempt
    \/ ParseContent

\* The event loop runs the coroutine on: a step that can be taken is taken
SpecFetch == FInit /\ [][FNext]_vars /\ WF_vars(FNext)

(***************************************************************************)
(* Properties of fetch_news                                                *)
(***************************************************************************)

\* No attempt gave content
NoAttemptGaveContent == \A i \in 1..Len(fLog) : fLog[i] # "content"

\* The attempts of the loop: at most max_retries + 1, none after one that
\* gave content
BoundedAttempts ==
    /\ Len(fLog) <= fMaxRetries + 1
    /\ \A i \in 1..Len(fLog) : fLog[i] = "content" => i = Len(fLog)
    /\ fpc \in {"crawl", "parse", "done"}

\* An empty list without content, and for a content whose parsed text,
\* the slice between the brackets or else the whole, is no JSON
EmptyOnFailure ==
    fpc = "done" =>
        /\ NoAttemptGaveContent => fReturned = <<>>
        /\ (HasContent(fResult) /\ ParsedData(fResult) = "error")
               => fReturned = <<>>

\* C25 as amended: fetch_news never raises and its retry loop terminates:
\* it makes at most max_retries + 1 crawl attempts, stops at the first
\* attempt that yields extracted content, and returns an empty list when
\* every attempt raised or yielded no content, or when the text it parses,
\* the content from its first "[" to its last "]" or the whole content
\* without such a span, is not parseable JSON.
C25_FetchNewsTerminates ==
    /\ [](BoundedAttempts /\ EmptyOnFailure)
    /\ <>(fpc = "done")

\* C25 as stated, for the content: an empty list whenever the extracted
\* content is not parseable JSON.
C25_EmptyWhenNotJson ==
    (fpc = "done" /\ HasContent(fResult) /\ fResult.whole = "error")
        => fReturned = <<>>

\* Under max_retries 3: a raise, a result without content, then a content
\* that is no JSON in any part, and the empty list returned
C25_Witness ==
    /\ fpc = "done"
    /\ fMaxRetries = ActionsMaxRetries
    /\ Len(fLog) = 3
    /\ fLog[1] = "raise"
    /\ fLog[2] = "content_None"
    /\ HasContent(fResult)
    /\ ParsedData(fResult) = "error"
    /\ fResult.whole = "error"
    /\ fReturned = <<>>

====
